---- MODULE Spec2Model ----
(***************************************************************************)
(* ValutaTrade Hub: the rate resolver (RateManager), the update            *)
(* orchestrator (RatesUpdater / RatesStorage) and the ledger               *)
(* (PortfolioManager / Portfolio / Wallet).                                *)
(*                                                                         *)
(* Representation                                                          *)
(*   - a currency code is a sequence of one-character strings, so that     *)
(*     strip(), upper() and the pair key f"{from}_{to}" are computed;      *)
(*   - an amount or a balance is an integer number of hundredths (0.01),   *)
(*     arithmetic on them is exact (binary floating point rounding is not  *)
(*     modelled);                                                          *)
(*   - a rate is a rational <<numerator, denominator>>; 1.0 / r swaps the  *)
(*     two, and two rates are the same number when they cross-multiply     *)
(*     equal;                                                              *)
(*   - time is an integer number of seconds.                               *)
(***************************************************************************)
EXTENDS Integers, Sequences, FiniteSets, TLC

----------------------------------------------------------------------------
(* Bounds of the model *)

MaxAmount == 2
MaxBalance == 2
MaxTicks == 2
MaxHistory == 1
MaxResolverTicks == 4
MaxBatchHistory == 3
MaxQuoteHistory == 2
MaxCodeLen == 6

----------------------------------------------------------------------------
(* Characters and strings *)

UpperChars ==
    {"A", "B", "C", "D", "E", "F", "G", "H", "I", "J", "K", "L", "M",
     "N", "O", "P", "Q", "R", "S", "T", "U", "V", "W", "X", "Y", "Z"}

LowerChars == {"b", "t", "c"}

DigitChars == {"1"}

SpaceChars == {" "}

\* str.isalnum() on one character
IsAlnumChar(c) == c \in UpperChars \cup LowerChars \cup DigitChars

\* str.upper() on one character
UpperChar(c) ==
    CASE c = "b" -> "B"
      [] c = "t" -> "T"
      [] c = "c" -> "C"
      [] OTHER -> c

\* str.upper()
StrUpper(s) == [i \in 1..Len(s) |-> UpperChar(s[i])]

RECURSIVE LStrip(_)
LStrip(s) ==
    IF s # <<>> /\ Head(s) \in SpaceChars THEN LStrip(Tail(s)) ELSE s

RECURSIVE RStrip(_)
RStrip(s) ==
    IF s # <<>> /\ s[Len(s)] \in SpaceChars
    THEN RStrip(SubSeq(s, 1, Len(s) - 1))
    ELSE s

\* str.strip()
StrStrip(s) == RStrip(LStrip(s))

\* str.isalnum(): non-empty and every character alphanumeric
StrIsAlnum(s) == s # <<>> /\ \A i \in 1..Len(s) : IsAlnumChar(s[i])

\* " " in s
HasSpace(s) == \E i \in 1..Len(s) : s[i] = " "

----------------------------------------------------------------------------
(* Currency codes *)

USD == <<"U", "S", "D">>
EUR == <<"E", "U", "R">>
GBP == <<"G", "B", "P">>
JPY == <<"J", "P", "Y">>
CHF == <<"C", "H", "F">>
RUB == <<"R", "U", "B">>
CNY == <<"C", "N", "Y">>
CAD == <<"C", "A", "D">>
AUD == <<"A", "U", "D">>
BTC == <<"B", "T", "C">>
ETH == <<"E", "T", "H">>
LTC == <<"L", "T", "C">>
XRP == <<"X", "R", "P">>
ADA == <<"A", "D", "A">>
DOT == <<"D", "O", "T">>
SOL == <<"S", "O", "L">>

\* _CURRENCY_REGISTRY after _initialize_registry()
CurrencyRegistry ==
    {USD, EUR, GBP, JPY, CHF, RUB, CNY, CAD, AUD,
     BTC, ETH, LTC, XRP, ADA, DOT}

\* Currency._validate_code: the error it raises, or "ok"
ValidateCodeError(code) ==
    IF code = <<>> \/ StrStrip(code) = <<>> THEN "InvalidCurrencyCodeError"
    ELSE LET code_clean == StrUpper(StrStrip(code)) IN
         IF Len(code_clean) < 2 \/ Len(code_clean) > 5
         THEN "InvalidCurrencyCodeError"
         ELSE IF HasSpace(code_clean) THEN "InvalidCurrencyCodeError"
         ELSE IF ~StrIsAlnum(code_clean) THEN "InvalidCurrencyCodeError"
         ELSE "ok"

\* validate_currency_code that returns the trimmed code in its own case
validate_currency_code_keep_case(currency_code) ==
    IF currency_code = <<>> \/ StrStrip(currency_code) = <<>>
    THEN [err |-> "InvalidCurrencyCodeError", code |-> <<>>]
    ELSE LET code_clean == StrUpper(StrStrip(currency_code)) IN
         IF ValidateCodeError(code_clean) # "ok"
         THEN [err |-> ValidateCodeError(code_clean), code |-> <<>>]
         ELSE [err |-> "ok", code |-> StrStrip(currency_code)]

\* validate_currency_code: [err |-> "ok", code |-> normalized] or the error
validate_currency_code(currency_code) ==
    IF currency_code = <<>> \/ StrStrip(currency_code) = <<>>
    THEN [err |-> "InvalidCurrencyCodeError", code |-> <<>>]
    ELSE LET code_clean == StrUpper(StrStrip(currency_code)) IN
         IF ValidateCodeError(code_clean) # "ok"
         THEN [err |-> ValidateCodeError(code_clean), code |-> <<>>]
         ELSE [err |-> "ok", code |-> code_clean]

\* get_currency that does not look the code up in the registry
get_currency_no_lookup(code) ==
    LET code_clean == StrUpper(StrStrip(code)) IN
    IF ValidateCodeError(code_clean) # "ok" THEN ValidateCodeError(code_clean)
    ELSE "ok"

\* get_currency: the error it raises, or "ok"
get_currency(code) ==
    LET code_clean == StrUpper(StrStrip(code)) IN
    IF ValidateCodeError(code_clean) # "ok" THEN ValidateCodeError(code_clean)
    ELSE IF code_clean \notin CurrencyRegistry THEN "CurrencyNotFoundError"
    ELSE "ok"

----------------------------------------------------------------------------
(* Rates as rationals *)

\* float equality of two rates
RateEq(a, b) == a[1] * b[2] = b[1] * a[2]

\* 1.0 / r (r # 0)
RateInv(r) == <<r[2], r[1]>>

\* a * b, both rationals
RateMul(a, b) == <<a[1] * b[1], a[2] * b[2]>>

\* the rational value of an amount given in hundredths
AmountValue(a) == <<a, 100>>

RateOne == <<1, 1>>

----------------------------------------------------------------------------
(* Generic helpers for dicts *)

EmptyMap == [k \in {} |-> 0]

MapPut(m, k, v) == [x \in (DOMAIN m) \cup {k} |-> IF x = k THEN v ELSE m[x]]

----------------------------------------------------------------------------
(* Settings *)

\* settings.rates_ttl_seconds
rates_ttl_seconds == 300

----------------------------------------------------------------------------
(* rates.json and the RateManager                                          *)
(*                                                                         *)
(* The JSON object of rates.json is modelled by its top-level keys:        *)
(*   top          the keys of the form FROM_TO written by the RateManager, *)
(*                each {"rate", "updated_at"};                             *)
(*   has_pairs,   the key "pairs" written by RatesStorage, an object of    *)
(*   pairs        FROM_TO keys, each {"rate", "updated_at", "source"};     *)
(*   source,      the keys "source" and "last_refresh".                    *)
(*   last_refresh                                                          *)
(* A timestamp is [t, z]: the second it was taken, and whether it was      *)
(* written with the "Z" suffix (datetime.utcnow().isoformat() + "Z") or    *)
(* without one (datetime.now().isoformat()).                               *)
(***************************************************************************)

NoStamp == [t |-> 0, z |-> FALSE, set |-> FALSE]

\* datetime.now().isoformat()
LocalStamp(now) == [t |-> now, z |-> FALSE, set |-> TRUE]

\* datetime.utcnow().isoformat() + "Z"
UtcZStamp(now) == [t |-> now, z |-> TRUE, set |-> TRUE]

\* rates.json does not exist
NoRatesFile ==
    [exists |-> FALSE, top |-> EmptyMap, has_pairs |-> FALSE,
     pairs |-> EmptyMap, source |-> "", last_refresh |-> NoStamp]

\* f"{from_currency}_{to_currency}"
PairKey(from_currency, to_currency) ==
    from_currency \o <<"_">> \o to_currency

\* RateManager._load_rates: every top-level key but "source" and
\* "last_refresh" (load_json gives {} for a missing file)
_load_rates(file) ==
    IF file.exists
    THEN [top |-> file.top, has_pairs |-> file.has_pairs, pairs |-> file.pairs]
    ELSE [top |-> EmptyMap, has_pairs |-> FALSE, pairs |-> EmptyMap]

\* RateManager._save_rates: the in-memory dict plus "source" and
\* "last_refresh", written over rates.json by save_json
_save_rates(rates, now, source) ==
    [exists |-> TRUE, top |-> rates.top, has_pairs |-> rates.has_pairs,
     pairs |-> rates.pairs, source |-> source,
     last_refresh |-> LocalStamp(now)]

None == [found |-> FALSE, rate |-> <<0, 1>>]

Some(r) == [found |-> TRUE, rate |-> r]

\* get_rate that looks the reciprocal pair up before the direct pair
get_rate_reverse_first(rates, from_currency, to_currency) ==
    IF from_currency = to_currency THEN [found |-> TRUE, rate |-> <<1, 1>>]
    ELSE LET rate_key == from_currency \o <<"_">> \o to_currency
             reverse_key == to_currency \o <<"_">> \o from_currency IN
         IF reverse_key \in DOMAIN rates.top
         THEN [found |-> TRUE,
               rate |-> <<rates.top[reverse_key].rate[2],
                          rates.top[reverse_key].rate[1]>>]
         ELSE IF rate_key \in DOMAIN rates.top
         THEN [found |-> TRUE, rate |-> rates.top[rate_key].rate]
         ELSE [found |-> FALSE, rate |-> <<0, 1>>]

\* get_rate without the shortcut for equal currencies
get_rate_no_identity(rates, from_currency, to_currency) ==
    LET rate_key == from_currency \o <<"_">> \o to_currency
        reverse_key == to_currency \o <<"_">> \o from_currency IN
    IF rate_key \in DOMAIN rates.top
    THEN [found |-> TRUE, rate |-> rates.top[rate_key].rate]
    ELSE IF reverse_key \in DOMAIN rates.top
    THEN [found |-> TRUE,
          rate |-> <<rates.top[reverse_key].rate[2],
                     rates.top[reverse_key].rate[1]>>]
    ELSE [found |-> FALSE, rate |-> <<0, 1>>]

\* RateManager.get_rate
get_rate(rates, from_currency, to_currency) ==
    IF from_currency = to_currency THEN Some(RateOne)
    ELSE LET rate_key == PairKey(from_currency, to_currency)
             reverse_key == PairKey(to_currency, from_currency) IN
         IF rate_key \in DOMAIN rates.top
         THEN Some(rates.top[rate_key].rate)
         ELSE IF reverse_key \in DOMAIN rates.top
         THEN Some(RateInv(rates.top[reverse_key].rate))
         ELSE None

\* is_rate_fresh with age < max_age instead of age <= max_age
is_rate_fresh_strict(rates, now, from_currency, to_currency, max_age_seconds) ==
    IF from_currency = to_currency THEN TRUE
    ELSE LET d == from_currency \o <<"_">> \o to_currency
             r == to_currency \o <<"_">> \o from_currency
             k == IF d \in DOMAIN rates.top THEN d ELSE r IN
         /\ k \in DOMAIN rates.top
         /\ rates.top[k].updated_at.set
         /\ ~rates.top[k].updated_at.z
         /\ now - rates.top[k].updated_at.t < 300

\* RateManager.is_rate_fresh; max_age_seconds is <<>> for None, <<n>> for n
is_rate_fresh(rates, now, from_currency, to_currency, max_age_seconds) ==
    IF from_currency = to_currency THEN TRUE
    ELSE LET max_age ==
                 IF max_age_seconds = <<>> \/ max_age_seconds[1] = 0
                 THEN rates_ttl_seconds
                 ELSE max_age_seconds[1]
             direct_key == PairKey(from_currency, to_currency)
             reverse_key == PairKey(to_currency, from_currency) IN
         IF direct_key \notin DOMAIN rates.top
            /\ reverse_key \notin DOMAIN rates.top
         THEN FALSE
         ELSE LET rate_key ==
                      IF direct_key \in DOMAIN rates.top
                      THEN direct_key ELSE reverse_key
                  updated_at == rates.top[rate_key].updated_at IN
              IF ~updated_at.set THEN FALSE
              \* naive now minus a "Z" timestamp: ValueError / TypeError
              ELSE IF updated_at.z THEN FALSE
              ELSE now - updated_at.t <= max_age

\* update_rate that saves rates.json before it changes the dict
update_rate_save_first(rates, now, from_currency, to_currency, rate, source) ==
    [rates |-> [rates EXCEPT !.top =
                   MapPut(rates.top,
                          from_currency \o <<"_">> \o to_currency,
                          [rate |-> rate,
                           updated_at |-> [t |-> now, z |-> FALSE,
                                           set |-> TRUE]])],
     file |-> [exists |-> TRUE, top |-> rates.top,
               has_pairs |-> rates.has_pairs, pairs |-> rates.pairs,
               source |-> source,
               last_refresh |-> [t |-> now, z |-> FALSE, set |-> TRUE]]]

\* RateManager.update_rate: [rates, file] after it
update_rate(rates, now, from_currency, to_currency, rate, source) ==
    LET rate_key == PairKey(from_currency, to_currency)
        new_rates ==
            [rates EXCEPT !.top =
                MapPut(rates.top, rate_key,
                       [rate |-> rate, updated_at |-> LocalStamp(now)])] IN
    [rates |-> new_rates, file |-> _save_rates(new_rates, now, source)]

\* the fallback_rates table of RateManager.get_fallback_rate:
\* <<from, to, numerator, denominator>>
fallback_rates ==
    {<<USD, USD, 1, 1>>, <<USD, EUR, 92, 100>>, <<USD, BTC, 23, 1000000>>,
     <<USD, ETH, 35, 100000>>, <<USD, RUB, 92, 1>>,
     <<EUR, USD, 109, 100>>, <<EUR, EUR, 1, 1>>, <<EUR, BTC, 25, 1000000>>,
     <<EUR, ETH, 38, 100000>>, <<EUR, RUB, 100, 1>>,
     <<BTC, USD, 43500, 1>>, <<BTC, EUR, 40000, 1>>, <<BTC, BTC, 1, 1>>,
     <<BTC, ETH, 155, 10>>, <<BTC, RUB, 4002000, 1>>,
     <<ETH, USD, 2800, 1>>, <<ETH, EUR, 2576, 1>>, <<ETH, BTC, 64, 1000>>,
     <<ETH, ETH, 1, 1>>, <<ETH, RUB, 257600, 1>>,
     <<RUB, USD, 11, 1000>>, <<RUB, EUR, 1, 100>>,
     <<RUB, BTC, 25, 100000000>>, <<RUB, ETH, 39, 10000000>>,
     <<RUB, RUB, 1, 1>>}

\* RateManager.get_fallback_rate
get_fallback_rate(from_currency, to_currency) ==
    IF \E e \in fallback_rates : e[1] = from_currency /\ e[2] = to_currency
    THEN LET e == CHOOSE x \in fallback_rates :
                      x[1] = from_currency /\ x[2] = to_currency
         IN Some(<<e[3], e[4]>>)
    ELSE None

\* get_or_fetch_rate whose write keeps the "pairs" of rates.json
get_or_fetch_rate_keep_pairs(rates, file, now, from_currency, to_currency) ==
    LET rate == get_rate(rates, from_currency, to_currency) IN
    IF rate.found /\ is_rate_fresh(rates, now, from_currency, to_currency, <<>>)
    THEN [err |-> "ok", rate |-> rate.rate, fallback |-> FALSE,
          wrote |-> FALSE, rates |-> rates, file |-> file]
    ELSE LET fallback_rate == get_fallback_rate(from_currency, to_currency) IN
         IF fallback_rate.found
         THEN LET u == update_rate(rates, now, from_currency, to_currency,
                                   fallback_rate.rate, "ParserService") IN
              [err |-> "ok", rate |-> fallback_rate.rate, fallback |-> TRUE,
               wrote |-> TRUE, rates |-> u.rates,
               file |-> [u.file EXCEPT !.has_pairs = file.has_pairs,
                                       !.pairs = file.pairs]]
         ELSE [err |-> "ApiRequestError", rate |-> <<0, 1>>,
               fallback |-> TRUE, wrote |-> FALSE,
               rates |-> rates, file |-> file]

\* RateManager.get_or_fetch_rate: the outcome (err = "ok" and the rate, or
\* the error raised), whether the fallback source was consulted, whether
\* rates.json was written, and the manager's dict and rates.json afterwards
get_or_fetch_rate(rates, file, now, from_currency, to_currency) ==
    LET rate == get_rate(rates, from_currency, to_currency) IN
    IF rate.found /\ is_rate_fresh(rates, now, from_currency, to_currency, <<>>)
    THEN [err |-> "ok", rate |-> rate.rate, fallback |-> FALSE,
          wrote |-> FALSE, rates |-> rates, file |-> file]
    ELSE LET fallback_rate == get_fallback_rate(from_currency, to_currency) IN
         IF fallback_rate.found
         THEN LET u == update_rate(rates, now, from_currency, to_currency,
                                   fallback_rate.rate, "ParserService") IN
              [err |-> "ok", rate |-> fallback_rate.rate, fallback |-> TRUE,
               wrote |-> TRUE, rates |-> u.rates, file |-> u.file]
         ELSE [err |-> "ApiRequestError", rate |-> <<0, 1>>,
               fallback |-> TRUE, wrote |-> FALSE,
               rates |-> rates, file |-> file]

----------------------------------------------------------------------------
(* Wallet and Portfolio (core/models.py)                                   *)
(* A portfolio's wallets are a dict: currency code -> balance.             *)
(***************************************************************************)

Max(a, b) == IF a >= b THEN a ELSE b

\* Wallet.__init__: max(0.0, float(balance))
Wallet(balance) == Max(0, balance)

\* deposit that assigns the amount instead of adding it
deposit_assign(balance, amount) ==
    IF amount <= 0
    THEN [err |-> "ValueError", balance |-> balance]
    ELSE [err |-> "ok", balance |-> amount]

\* Wallet.deposit: [err, balance]
deposit(balance, amount) ==
    IF amount <= 0
    THEN [err |-> "ValueError", balance |-> balance]
    ELSE [err |-> "ok", balance |-> balance + amount]

\* withdraw with the operands of the subtraction swapped
withdraw_swapped(balance, amount) ==
    IF amount <= 0 \/ amount > balance
    THEN [err |-> "ValueError", balance |-> balance]
    ELSE [err |-> "ok", balance |-> amount - balance]

\* Wallet.withdraw: [err, balance]
withdraw(balance, amount) ==
    IF amount <= 0
    THEN [err |-> "ValueError", balance |-> balance]
    ELSE IF amount > balance
    THEN [err |-> "ValueError", balance |-> balance]
    ELSE [err |-> "ok", balance |-> balance - amount]

\* Portfolio.add_currency: [err, wallets]
add_currency(wallets, currency_code) ==
    IF currency_code \in DOMAIN wallets
    THEN [err |-> "ValueError", wallets |-> wallets]
    ELSE [err |-> "ok", wallets |-> MapPut(wallets, currency_code, Wallet(0))]

\* Portfolio.get_wallet(currency_code) is not None
has_wallet(wallets, currency_code) == currency_code \in DOMAIN wallets

----------------------------------------------------------------------------
(* portfolios.json and the PortfolioManager (core/usecases.py)             *)
(* In memory: user_id -> wallets.  In the file: a list of                  *)
(* {"user_id", "wallets": {code: {"currency_code", "balance"}}}, modelled  *)
(* as user_id -> that object.                                              *)
(***************************************************************************)

\* portfolios.json does not exist (load_json gives [])
NoPortfoliosFile == [exists |-> FALSE, data |-> EmptyMap]

\* PortfolioManager._load_portfolios
_load_portfolios(file) ==
    [u \in DOMAIN file.data |->
        [c \in DOMAIN file.data[u].wallets |->
            Wallet(file.data[u].wallets[c].balance)]]

\* _save_portfolios that leaves out the wallets whose balance is 0
_save_portfolios_skip_empty(portfolios) ==
    [exists |-> TRUE,
     data |-> [u \in DOMAIN portfolios |->
                  [user_id |-> u,
                   wallets |-> [c \in {x \in DOMAIN portfolios[u] :
                                           portfolios[u][x] # 0} |->
                                   [currency_code |-> c,
                                    balance |-> portfolios[u][c]]]]]]

\* PortfolioManager._save_portfolios
_save_portfolios(portfolios) ==
    [exists |-> TRUE,
     data |-> [u \in DOMAIN portfolios |->
                  [user_id |-> u,
                   wallets |-> [c \in DOMAIN portfolios[u] |->
                                   [currency_code |-> c,
                                    balance |-> portfolios[u][c]]]]]]

\* PortfolioManager.get_portfolio: [portfolios, file] after it
get_portfolio(portfolios, file, user_id) ==
    IF user_id \notin DOMAIN portfolios
    THEN LET p == MapPut(portfolios, user_id, EmptyMap) IN
         [portfolios |-> p, file |-> _save_portfolios(p)]
    ELSE [portfolios |-> portfolios, file |-> file]

\* PortfolioManager.save_portfolio of the portfolio with these wallets
save_portfolio(portfolios, user_id, wallets) ==
    LET p == MapPut(portfolios, user_id, wallets) IN
    [portfolios |-> p, file |-> _save_portfolios(p)]

\* what a failed buy_currency / sell_currency leaves behind
LedgerFailure(err, pm, rm, calls, fallback) ==
    [err |-> err, rate |-> <<0, 1>>, value |-> <<0, 1>>,
     available |-> 0, required |-> 0,
     portfolios |-> pm.portfolios, pfile |-> pm.file,
     rates |-> rm.rates, rfile |-> rm.file,
     resolver_calls |-> calls, fallback |-> fallback]

\* PortfolioManager.buy_currency, without its decorator.
\* pm = [portfolios, file], rm = [rates, file].
buy_currency_body(pm, rm, now, user_id, currency, amount) ==
    IF amount <= 0 THEN LedgerFailure("ValueError", pm, rm, 0, FALSE)
    ELSE LET v == validate_currency_code(currency) IN
    IF v.err # "ok" THEN LedgerFailure(v.err, pm, rm, 0, FALSE)
    ELSE IF get_currency(v.code) # "ok"
    THEN LedgerFailure(get_currency(v.code), pm, rm, 0, FALSE)
    ELSE LET currency_code == v.code
             pm1 == get_portfolio(pm.portfolios, pm.file, user_id)
             g == get_or_fetch_rate(rm.rates, rm.file, now, currency_code, USD)
             rm1 == [rates |-> g.rates, file |-> g.file] IN
    IF g.err # "ok"
    THEN LedgerFailure("RateUnavailableError", pm1, rm1, 1, g.fallback)
            @@ [pair |-> <<currency_code, USD>>]
    ELSE LET wallets0 == pm1.portfolios[user_id]
             wallets1 == IF currency_code \notin DOMAIN wallets0
                         THEN add_currency(wallets0, currency_code).wallets
                         ELSE wallets0
             d == deposit(wallets1[currency_code], amount) IN
    IF d.err # "ok" THEN LedgerFailure("ValueError", pm1, rm1, 1, g.fallback)
    ELSE LET wallets2 == [wallets1 EXCEPT ![currency_code] = d.balance]
             pm2 == save_portfolio(pm1.portfolios, user_id, wallets2) IN
         [err |-> "ok", rate |-> g.rate,
          value |-> RateMul(AmountValue(amount), g.rate),
          available |-> 0, required |-> 0,
          portfolios |-> pm2.portfolios, pfile |-> pm2.file,
          rates |-> g.rates, rfile |-> g.file,
          resolver_calls |-> 1, fallback |-> g.fallback]

\* sell_currency that resolves the rate before it compares the balance
sell_currency_body_funds_last(pm, rm, now, user_id, currency, amount) ==
    IF amount <= 0 THEN LedgerFailure("ValueError", pm, rm, 0, FALSE)
    ELSE LET v == validate_currency_code(currency) IN
    IF v.err # "ok" THEN LedgerFailure(v.err, pm, rm, 0, FALSE)
    ELSE IF get_currency(v.code) # "ok"
    THEN LedgerFailure(get_currency(v.code), pm, rm, 0, FALSE)
    ELSE LET currency_code == v.code
             pm1 == get_portfolio(pm.portfolios, pm.file, user_id)
             wallets0 == pm1.portfolios[user_id] IN
    IF ~has_wallet(wallets0, currency_code)
    THEN LedgerFailure("WalletNotFoundError", pm1, rm, 0, FALSE)
    ELSE LET old_balance == wallets0[currency_code]
             g == get_or_fetch_rate(rm.rates, rm.file, now, currency_code, USD)
             rm1 == [rates |-> g.rates, file |-> g.file] IN
    IF g.err # "ok"
    THEN LedgerFailure("RateUnavailableError", pm1, rm1, 1, g.fallback)
            @@ [pair |-> <<currency_code, USD>>]
    ELSE IF amount > old_balance
    THEN [LedgerFailure("InsufficientFundsError", pm1, rm1, 1, g.fallback)
            EXCEPT !.available = old_balance, !.required = amount]
    ELSE LET w == withdraw(old_balance, amount) IN
    IF w.err # "ok" THEN LedgerFailure("ValueError", pm1, rm1, 1, g.fallback)
    ELSE LET wallets1 == [wallets0 EXCEPT ![currency_code] = w.balance]
             pm2 == save_portfolio(pm1.portfolios, user_id, wallets1) IN
         [err |-> "ok", rate |-> g.rate,
          value |-> RateMul(AmountValue(amount), g.rate),
          available |-> 0, required |-> 0,
          portfolios |-> pm2.portfolios, pfile |-> pm2.file,
          rates |-> g.rates, rfile |-> g.file,
          resolver_calls |-> 1, fallback |-> g.fallback]

\* PortfolioManager.sell_currency, without its decorator
sell_currency_body(pm, rm, now, user_id, currency, amount) ==
    IF amount <= 0 THEN LedgerFailure("ValueError", pm, rm, 0, FALSE)
    ELSE LET v == validate_currency_code(currency) IN
    IF v.err # "ok" THEN LedgerFailure(v.err, pm, rm, 0, FALSE)
    ELSE IF get_currency(v.code) # "ok"
    THEN LedgerFailure(get_currency(v.code), pm, rm, 0, FALSE)
    ELSE LET currency_code == v.code
             pm1 == get_portfolio(pm.portfolios, pm.file, user_id)
             wallets0 == pm1.portfolios[user_id] IN
    IF ~has_wallet(wallets0, currency_code)
    THEN LedgerFailure("WalletNotFoundError", pm1, rm, 0, FALSE)
    ELSE LET old_balance == wallets0[currency_code] IN
    IF amount > old_balance
    THEN [LedgerFailure("InsufficientFundsError", pm1, rm, 0, FALSE)
            EXCEPT !.available = old_balance, !.required = amount]
    ELSE LET g == get_or_fetch_rate(rm.rates, rm.file, now, currency_code, USD)
             rm1 == [rates |-> g.rates, file |-> g.file] IN
    IF g.err # "ok"
    THEN LedgerFailure("RateUnavailableError", pm1, rm1, 1, g.fallback)
            @@ [pair |-> <<currency_code, USD>>]
    ELSE LET w == withdraw(old_balance, amount) IN
    IF w.err # "ok" THEN LedgerFailure("ValueError", pm1, rm1, 1, g.fallback)
    ELSE LET wallets1 == [wallets0 EXCEPT ![currency_code] = w.balance]
             pm2 == save_portfolio(pm1.portfolios, user_id, wallets1) IN
         [err |-> "ok", rate |-> g.rate,
          value |-> RateMul(AmountValue(amount), g.rate),
          available |-> 0, required |-> 0,
          portfolios |-> pm2.portfolios, pfile |-> pm2.file,
          rates |-> g.rates, rfile |-> g.file,
          resolver_calls |-> 1, fallback |-> g.fallback]

\* log_action(verbose=True) around buy / sell: with a non-empty currency
\* argument it first calls get_portfolio(user_id), which creates and saves
\* a missing portfolio; the exception of the wrapped call is re-raised
log_action_before(pm, user_id, currency) ==
    IF currency # <<>>
    THEN get_portfolio(pm.portfolios, pm.file, user_id)
    ELSE pm

\* buy_currency that creates the wallet before it resolves the rate
buy_currency_wallet_first(pm, rm, now, user_id, currency, amount) ==
    LET v == validate_currency_code(currency)
        pm0 == log_action_before(pm, user_id, currency) IN
    IF amount > 0 /\ v.err = "ok" /\ get_currency(v.code) = "ok"
    THEN LET pm1 == get_portfolio(pm0.portfolios, pm0.file, user_id)
             wallets0 == pm1.portfolios[user_id]
             wallets1 == IF v.code \notin DOMAIN wallets0
                         THEN add_currency(wallets0, v.code).wallets
                         ELSE wallets0
         IN buy_currency_body(save_portfolio(pm1.portfolios, user_id, wallets1),
                              rm, now, user_id, currency, amount)
    ELSE buy_currency_body(pm0, rm, now, user_id, currency, amount)

\* buy_currency that lets the resolver's ApiRequestError through
buy_currency_api_error(pm, rm, now, user_id, currency, amount) ==
    LET r == buy_currency_body(log_action_before(pm, user_id, currency),
                               rm, now, user_id, currency, amount) IN
    IF r.err = "RateUnavailableError"
    THEN [r EXCEPT !.err = "ApiRequestError"]
    ELSE r

\* buy_currency that empties the buyer's USD wallet to pay for the purchase
buy_currency_debit_usd(pm, rm, now, user_id, currency, amount) ==
    LET r == buy_currency_body(log_action_before(pm, user_id, currency),
                               rm, now, user_id, currency, amount)
        paid == [c \in DOMAIN r.portfolios[user_id] |->
                    IF c = <<"U", "S", "D">> /\ r.rate # <<1, 1>>
                    THEN 0 ELSE r.portfolios[user_id][c]]
    IN IF r.err # "ok" THEN r
       ELSE [r EXCEPT !.portfolios = [r.portfolios EXCEPT ![user_id] = paid],
                      !.pfile = _save_portfolios(
                                    [r.portfolios EXCEPT ![user_id] = paid])]

\* PortfolioManager.buy_currency as called (decorated)
buy_currency(pm, rm, now, user_id, currency, amount) ==
    buy_currency_body(log_action_before(pm, user_id, currency),
                      rm, now, user_id, currency, amount)

\* sell_currency that resolves the rate before it checks the wallet
sell_currency_rate_first(pm, rm, now, user_id, currency, amount) ==
    LET v == validate_currency_code(currency)
        pm0 == log_action_before(pm, user_id, currency) IN
    IF amount > 0 /\ v.err = "ok" /\ get_currency(v.code) = "ok"
    THEN LET g == get_or_fetch_rate(rm.rates, rm.file, now, v.code, USD)
             r == sell_currency_body(pm0, [rates |-> g.rates, file |-> g.file],
                                     now, user_id, currency, amount)
         IN IF g.err # "ok"
            THEN LedgerFailure("RateUnavailableError", pm0, rm, 1, g.fallback)
            ELSE [r EXCEPT !.resolver_calls = 1]
    ELSE sell_currency_body(pm0, rm, now, user_id, currency, amount)

\* sell_currency that removes a wallet it has emptied
sell_currency_drop_empty(pm, rm, now, user_id, currency, amount) ==
    LET r == sell_currency_body(log_action_before(pm, user_id, currency),
                                rm, now, user_id, currency, amount)
        emptied == {c \in DOMAIN r.portfolios[user_id] :
                       r.portfolios[user_id][c] = 0}
        kept == [c \in (DOMAIN r.portfolios[user_id]) \ emptied |->
                    r.portfolios[user_id][c]]
    IN IF r.err # "ok" THEN r
       ELSE [r EXCEPT !.portfolios = [r.portfolios EXCEPT ![user_id] = kept],
                      !.pfile = _save_portfolios(
                                    [r.portfolios EXCEPT ![user_id] = kept])]

\* PortfolioManager.sell_currency as called (decorated)
sell_currency(pm, rm, now, user_id, currency, amount) ==
    sell_currency_body(log_action_before(pm, user_id, currency),
                       rm, now, user_id, currency, amount)

----------------------------------------------------------------------------
(* RatesStorage and RatesUpdater (parser_service)                          *)
(* A provider's fetch_rates() result is [ok, rates]: ok = FALSE when it    *)
(* raised, else rates is the dict it returned, as the sequence of its      *)
(* items <<pair key, rate>> in insertion order.                            *)
(* exchange_rates.json is the sequence of its records (a missing file and  *)
(* an empty list read the same in load_history).                           *)
(***************************************************************************)

\* the number of "_" in a key, plus one: len(pair.split("_"))
SplitCount(key) == Cardinality({i \in 1..Len(key) : key[i] = "_"}) + 1

\* pair.split("_")[0] for a key with one "_"
SplitFrom(key) ==
    SubSeq(key, 1, (CHOOSE i \in 1..Len(key) : key[i] = "_") - 1)

\* pair.split("_")[1] for a key with one "_"
SplitTo(key) ==
    SubSeq(key, (CHOOSE i \in 1..Len(key) : key[i] = "_") + 1, Len(key))

\* the dict of a sequence of items (a later item replaces an earlier one)
RECURSIVE DictOf(_)
DictOf(items) ==
    IF items = <<>> THEN EmptyMap
    ELSE LET last_item == items[Len(items)] IN
         MapPut(DictOf(SubSeq(items, 1, Len(items) - 1)),
                last_item[1], last_item[2])

\* dict.update that keeps the value a key already has
DictUpdate_keep_first(a, b) ==
    [k \in (DOMAIN a) \cup (DOMAIN b) |-> IF k \in DOMAIN a THEN a[k] ELSE b[k]]

\* dict.update
DictUpdate(a, b) ==
    [k \in (DOMAIN a) \cup (DOMAIN b) |-> IF k \in DOMAIN b THEN b[k] ELSE a[k]]

\* save_rate_to_history that starts from an empty history
save_rate_to_history_overwrite(history, now, from_currency, to_currency, rate, source) ==
    << [id |-> <<from_currency \o <<"_">> \o to_currency,
                 [t |-> now, z |-> TRUE, set |-> TRUE]>>,
        from_currency |-> from_currency,
        to_currency |-> to_currency,
        rate |-> rate,
        timestamp |-> [t |-> now, z |-> TRUE, set |-> TRUE],
        source |-> source,
        meta |-> [status_code |-> 200]] >>

\* save_rate_to_history whose record id is the pair alone
save_rate_to_history_pair_id(history, now, from_currency, to_currency, rate, source) ==
    Append(history,
           [id |-> <<from_currency \o <<"_">> \o to_currency>>,
            from_currency |-> StrUpper(from_currency),
            to_currency |-> StrUpper(to_currency),
            rate |-> rate,
            timestamp |-> [t |-> now, z |-> TRUE, set |-> TRUE],
            source |-> source,
            meta |-> [status_code |-> 200]])

\* RatesStorage.save_rate_to_history: the history after the append
save_rate_to_history(history, now, from_currency, to_currency, rate, source) ==
    LET timestamp == UtcZStamp(now)
        record == [id |-> <<PairKey(from_currency, to_currency), timestamp>>,
                   from_currency |-> StrUpper(from_currency),
                   to_currency |-> StrUpper(to_currency),
                   rate |-> rate,
                   timestamp |-> timestamp,
                   source |-> source,
                   meta |-> [status_code |-> 200]]
    IN Append(history, record)

\* the history-saving loop of run_update over one provider's items
RECURSIVE SaveItemsToHistory(_, _, _, _)
SaveItemsToHistory(history, now, items, source) ==
    IF items = <<>> THEN history
    ELSE LET pair == Head(items)[1]
             rate == Head(items)[2]
             h == IF SplitCount(pair) = 2
                  THEN save_rate_to_history(history, now, SplitFrom(pair),
                                            SplitTo(pair), rate, source)
                  ELSE history
         IN SaveItemsToHistory(h, now, Tail(items), source)

\* RatesStorage.save_rates_cache: rates.json after it
save_rates_cache(rates, sources, now) ==
    LET timestamp == UtcZStamp(now)
        kept == {pair \in DOMAIN rates : SplitCount(pair) = 2}
        pairs_data ==
            [pair \in kept |->
                [rate |-> rates[pair],
                 updated_at |-> timestamp,
                 source |-> IF pair \in DOMAIN sources
                            THEN sources[pair] ELSE "Unknown"]]
    IN [exists |-> TRUE, top |-> EmptyMap, has_pairs |-> TRUE,
        pairs |-> pairs_data, source |-> "", last_refresh |-> timestamp]

\* source.lower() of the source filters the model passes
SourceLower(source) ==
    CASE source = "CoinGecko" -> "coingecko"
      [] source = "ExchangeRate" -> "exchangerate"
      [] OTHER -> source

\* run_update with two changes switched by flags: abort_on_error lets a
\* provider's exception end the call, save_empty writes the cache before
\* the check for an empty result
run_update_variant(file, history, now, source, crypto, fiat, has_fiat_client, abort_on_error, save_empty) ==
    LET do_crypto == source \in {"None", "CoinGecko"}
        do_fiat == source \in {"None", "exchangerate"} /\ has_fiat_client
        crypto_ok == do_crypto /\ crypto.ok
        fiat_ok == do_fiat /\ fiat.ok
        aborted == abort_on_error /\ \/ do_crypto /\ ~crypto.ok
                                     \/ do_fiat /\ ~fiat.ok
        h1 == IF crypto_ok
              THEN SaveItemsToHistory(history, now, crypto.rates, "CoinGecko")
              ELSE history
        h2 == IF fiat_ok /\ ~(abort_on_error /\ do_crypto /\ ~crypto.ok)
              THEN SaveItemsToHistory(h1, now, fiat.rates, "ExchangeRate-API")
              ELSE h1
        rates1 == IF crypto_ok THEN DictOf(crypto.rates) ELSE EmptyMap
        all_rates == IF fiat_ok THEN DictUpdate(rates1, DictOf(fiat.rates))
                     ELSE rates1
        all_sources ==
            [k \in DOMAIN all_rates |->
                IF fiat_ok /\ k \in DOMAIN DictOf(fiat.rates)
                THEN "ExchangeRate-API" ELSE "CoinGecko"]
        errors == (IF do_crypto /\ ~crypto.ok
                   THEN <<"Failed to fetch from CoinGecko">> ELSE <<>>)
                  \o (IF do_fiat /\ ~fiat.ok
                      THEN <<"Failed to fetch from ExchangeRate-API">>
                      ELSE <<>>)
        f == save_rates_cache(all_rates, all_sources, now)
    IN IF aborted
       THEN [err |-> "Exception", total_rates |-> 0, errors |-> errors,
             last_refresh |-> [t |-> 0, z |-> FALSE, set |-> FALSE],
             file |-> file, history |-> h2]
       ELSE IF DOMAIN all_rates = {}
       THEN [err |-> "Exception", total_rates |-> 0, errors |-> errors,
             last_refresh |-> [t |-> 0, z |-> FALSE, set |-> FALSE],
             file |-> IF save_empty THEN f ELSE file, history |-> h2]
       ELSE [err |-> "ok", total_rates |-> Cardinality(DOMAIN all_rates),
             errors |-> errors, last_refresh |-> f.last_refresh,
             file |-> f, history |-> h2]

\* run_update that does not catch a provider's exception
run_update_abort_on_error(file, history, now, source, crypto, fiat, has_fiat_client) ==
    run_update_variant(file, history, now, source, crypto, fiat,
                       has_fiat_client, TRUE, FALSE)

\* run_update that writes the cache before it checks for an empty result
run_update_save_empty(file, history, now, source, crypto, fiat, has_fiat_client) ==
    run_update_variant(file, history, now, source, crypto, fiat,
                       has_fiat_client, FALSE, TRUE)

\* run_update that adds the fetched pairs to what rates.json holds
run_update_merge_cache(file, history, now, source, crypto, fiat, has_fiat_client) ==
    LET r == run_update_variant(file, history, now, source, crypto, fiat,
                                has_fiat_client, FALSE, FALSE) IN
    IF r.err # "ok" THEN r
    ELSE [r EXCEPT !.file.top = file.top,
                   !.file.pairs =
                       [k \in (DOMAIN file.pairs) \cup (DOMAIN r.file.pairs) |->
                           IF k \in DOMAIN r.file.pairs
                           THEN r.file.pairs[k] ELSE file.pairs[k]]]

\* RatesUpdater.run_update.  source is "None" or a filter; crypto and fiat
\* are the two providers' fetch results; has_fiat_client is whether
\* self.fiat_client is set.  Gives err ("ok" or "Exception"), the result
\* dict, and the two files afterwards.
run_update(file, history, now, source, crypto, fiat, has_fiat_client) ==
    LET do_crypto == source = "None" \/ SourceLower(source) = "coingecko"
        do_fiat == source = "None" \/ SourceLower(source) = "exchangerate"
        crypto_ok == do_crypto /\ crypto.ok
        fiat_ok == do_fiat /\ has_fiat_client /\ fiat.ok
        h1 == IF crypto_ok
              THEN SaveItemsToHistory(history, now, crypto.rates, "CoinGecko")
              ELSE history
        rates1 == IF crypto_ok THEN DictOf(crypto.rates) ELSE EmptyMap
        sources1 == IF crypto_ok
                    THEN [k \in DOMAIN rates1 |-> "CoinGecko"] ELSE EmptyMap
        errors1 == IF do_crypto /\ ~crypto.ok
                   THEN <<"Failed to fetch from CoinGecko">> ELSE <<>>
        h2 == IF fiat_ok
              THEN SaveItemsToHistory(h1, now, fiat.rates, "ExchangeRate-API")
              ELSE h1
        all_rates == IF fiat_ok
                     THEN DictUpdate(rates1, DictOf(fiat.rates)) ELSE rates1
        all_sources ==
            IF fiat_ok
            THEN DictUpdate(sources1,
                     [k \in DOMAIN DictOf(fiat.rates) |-> "ExchangeRate-API"])
            ELSE sources1
        errors == IF do_fiat /\ has_fiat_client /\ ~fiat.ok
                  THEN Append(errors1, "Failed to fetch from ExchangeRate-API")
                  ELSE errors1
    IN IF DOMAIN all_rates = {}
       THEN [err |-> "Exception", total_rates |-> 0, errors |-> errors,
             last_refresh |-> NoStamp, file |-> file, history |-> h2]
       ELSE LET f == save_rates_cache(all_rates, all_sources, now) IN
            [err |-> "ok", total_rates |-> Cardinality(DOMAIN all_rates),
             errors |-> errors, last_refresh |-> f.last_refresh,
             file |-> f, history |-> h2]

\* run_update_step that writes the cache as soon as the crypto provider's
\* rates are logged, before the fiat provider is asked
run_update_step_save_early(frame, file, history, now, answer) ==
    LET do_fiat == /\ frame.source = "None"
                      \/ SourceLower(frame.source) = "exchangerate"
                   /\ frame.has_fiat_client
        after_crypto == IF do_fiat THEN "fiat_fetch" ELSE "check"
        same == [file |-> file, history |-> history]
    IN CASE frame.pc = "crypto_fetch" ->
              IF answer.ok
              THEN same @@ [frame |-> [frame EXCEPT !.pc = "crypto_history",
                                                    !.pending = answer.rates,
                                                    !.fetched = answer.rates]]
              ELSE same @@ [frame |-> [frame EXCEPT
                               !.pc = after_crypto,
                               !.errors = Append(frame.errors,
                                   "Failed to fetch from CoinGecko")]]
         [] frame.pc = "crypto_history" ->
              IF frame.pending # <<>>
              THEN [frame |-> [frame EXCEPT !.pending = Tail(frame.pending)],
                    file |-> file,
                    history |-> SaveItemsToHistory(history, now,
                                    SubSeq(frame.pending, 1, 1), "CoinGecko")]
              ELSE [frame |-> [frame EXCEPT
                               !.pc = after_crypto,
                               !.cache_writes = @ + 1,
                               !.all_rates = DictUpdate(frame.all_rates,
                                                 DictOf(frame.fetched)),
                               !.all_sources = DictUpdate(frame.all_sources,
                                   [k \in DOMAIN DictOf(frame.fetched) |->
                                       "CoinGecko"])],
                    file |-> save_rates_cache(
                                 DictUpdate(frame.all_rates,
                                            DictOf(frame.fetched)),
                                 [k \in DOMAIN DictOf(frame.fetched) |->
                                     "CoinGecko"], now),
                    history |-> history]
         [] frame.pc = "fiat_fetch" ->
              IF answer.ok
              THEN same @@ [frame |-> [frame EXCEPT !.pc = "fiat_history",
                                                    !.pending = answer.rates,
                                                    !.fetched = answer.rates]]
              ELSE same @@ [frame |-> [frame EXCEPT
                               !.pc = "check",
                               !.errors = Append(frame.errors,
                                   "Failed to fetch from ExchangeRate-API")]]
         [] frame.pc = "fiat_history" ->
              IF frame.pending # <<>>
              THEN [frame |-> [frame EXCEPT !.pending = Tail(frame.pending)],
                    file |-> file,
                    history |-> SaveItemsToHistory(history, now,
                                    SubSeq(frame.pending, 1, 1),
                                    "ExchangeRate-API")]
              ELSE same @@ [frame |-> [frame EXCEPT
                               !.pc = "check",
                               !.all_rates = DictUpdate(frame.all_rates,
                                                 DictOf(frame.fetched)),
                               !.all_sources = DictUpdate(frame.all_sources,
                                   [k \in DOMAIN DictOf(frame.fetched) |->
                                       "ExchangeRate-API"])]]
         [] frame.pc = "check" ->
              IF DOMAIN frame.all_rates = {}
              THEN same @@ [frame |-> [frame EXCEPT !.pc = "raised",
                                                    !.err = "Exception"]]
              ELSE [frame |-> [frame EXCEPT !.pc = "done",
                                            !.cache_writes = @ + 1],
                    file |-> save_rates_cache(frame.all_rates,
                                              frame.all_sources, now),
                    history |-> history]
         [] OTHER -> same @@ [frame |-> frame]

\* run_update_step that appends no history record for CoinGecko rates
run_update_step_skip_history(frame, file, history, now, answer) ==
    LET do_fiat == /\ frame.source = "None"
                      \/ SourceLower(frame.source) = "exchangerate"
                   /\ frame.has_fiat_client
        after_crypto == IF do_fiat THEN "fiat_fetch" ELSE "check"
        same == [file |-> file, history |-> history]
    IN CASE frame.pc = "crypto_fetch" ->
              IF answer.ok
              THEN same @@ [frame |-> [frame EXCEPT !.pc = "crypto_history",
                                                    !.pending = answer.rates,
                                                    !.fetched = answer.rates]]
              ELSE same @@ [frame |-> [frame EXCEPT
                               !.pc = after_crypto,
                               !.errors = Append(frame.errors,
                                   "Failed to fetch from CoinGecko")]]
         [] frame.pc = "crypto_history" ->
              IF frame.pending # <<>>
              THEN [frame |-> [frame EXCEPT !.pending = Tail(frame.pending)],
                    file |-> file,
                    history |-> history]
              ELSE same @@ [frame |-> [frame EXCEPT
                               !.pc = after_crypto,
                               !.all_rates = DictUpdate(frame.all_rates,
                                                 DictOf(frame.fetched)),
                               !.all_sources = DictUpdate(frame.all_sources,
                                   [k \in DOMAIN DictOf(frame.fetched) |->
                                       "CoinGecko"])]]
         [] frame.pc = "fiat_fetch" ->
              IF answer.ok
              THEN same @@ [frame |-> [frame EXCEPT !.pc = "fiat_history",
                                                    !.pending = answer.rates,
                                                    !.fetched = answer.rates]]
              ELSE same @@ [frame |-> [frame EXCEPT
                               !.pc = "check",
                               !.errors = Append(frame.errors,
                                   "Failed to fetch from ExchangeRate-API")]]
         [] frame.pc = "fiat_history" ->
              IF frame.pending # <<>>
              THEN [frame |-> [frame EXCEPT !.pending = Tail(frame.pending)],
                    file |-> file,
                    history |-> SaveItemsToHistory(history, now,
                                    SubSeq(frame.pending, 1, 1),
                                    "ExchangeRate-API")]
              ELSE same @@ [frame |-> [frame EXCEPT
                               !.pc = "check",
                               !.all_rates = DictUpdate(frame.all_rates,
                                                 DictOf(frame.fetched)),
                               !.all_sources = DictUpdate(frame.all_sources,
                                   [k \in DOMAIN DictOf(frame.fetched) |->
                                       "ExchangeRate-API"])]]
         [] frame.pc = "check" ->
              IF DOMAIN frame.all_rates = {}
              THEN same @@ [frame |-> [frame EXCEPT !.pc = "raised",
                                                    !.err = "Exception"]]
              ELSE [frame |-> [frame EXCEPT !.pc = "done",
                                            !.cache_writes = @ + 1],
                    file |-> save_rates_cache(frame.all_rates,
                                              frame.all_sources, now),
                    history |-> history]
         [] OTHER -> same @@ [frame |-> frame]

\* RatesUpdater.run_update, one step at a time.  frame is the call's
\* position and local variables: pc ("crypto_fetch" / "fiat_fetch" while
\* fetch_rates() of that client is running, "crypto_history" /
\* "fiat_history" in the loop that logs the returned rates, "check" at
\* "if not all_rates", "done" after the return, "raised" after the raise),
\* pending (the items the history loop has still to log), all_rates,
\* all_sources, errors.  answer is what fetch_rates() gives when the step
\* is its return.  Gives the frame and the two files after the step.
run_update_step(frame, file, history, now, answer) ==
    LET do_fiat == /\ frame.source = "None"
                      \/ SourceLower(frame.source) = "exchangerate"
                   /\ frame.has_fiat_client
        after_crypto == IF do_fiat THEN "fiat_fetch" ELSE "check"
        same == [file |-> file, history |-> history]
    IN CASE frame.pc = "crypto_fetch" ->
              IF answer.ok
              THEN same @@ [frame |-> [frame EXCEPT !.pc = "crypto_history",
                                                    !.pending = answer.rates,
                                                    !.fetched = answer.rates]]
              ELSE same @@ [frame |-> [frame EXCEPT
                               !.pc = after_crypto,
                               !.errors = Append(frame.errors,
                                   "Failed to fetch from CoinGecko")]]
         [] frame.pc = "crypto_history" ->
              IF frame.pending # <<>>
              THEN [frame |-> [frame EXCEPT !.pending = Tail(frame.pending)],
                    file |-> file,
                    history |-> SaveItemsToHistory(history, now,
                                    SubSeq(frame.pending, 1, 1), "CoinGecko")]
              ELSE same @@ [frame |-> [frame EXCEPT
                               !.pc = after_crypto,
                               !.all_rates = DictUpdate(frame.all_rates,
                                                 DictOf(frame.fetched)),
                               !.all_sources = DictUpdate(frame.all_sources,
                                   [k \in DOMAIN DictOf(frame.fetched) |->
                                       "CoinGecko"])]]
         [] frame.pc = "fiat_fetch" ->
              IF answer.ok
              THEN same @@ [frame |-> [frame EXCEPT !.pc = "fiat_history",
                                                    !.pending = answer.rates,
                                                    !.fetched = answer.rates]]
              ELSE same @@ [frame |-> [frame EXCEPT
                               !.pc = "check",
                               !.errors = Append(frame.errors,
                                   "Failed to fetch from ExchangeRate-API")]]
         [] frame.pc = "fiat_history" ->
              IF frame.pending # <<>>
              THEN [frame |-> [frame EXCEPT !.pending = Tail(frame.pending)],
                    file |-> file,
                    history |-> SaveItemsToHistory(history, now,
                                    SubSeq(frame.pending, 1, 1),
                                    "ExchangeRate-API")]
              ELSE same @@ [frame |-> [frame EXCEPT
                               !.pc = "check",
                               !.all_rates = DictUpdate(frame.all_rates,
                                                 DictOf(frame.fetched)),
                               !.all_sources = DictUpdate(frame.all_sources,
                                   [k \in DOMAIN DictOf(frame.fetched) |->
                                       "ExchangeRate-API"])]]
         [] frame.pc = "check" ->
              IF DOMAIN frame.all_rates = {}
              THEN same @@ [frame |-> [frame EXCEPT !.pc = "raised",
                                                    !.err = "Exception"]]
              ELSE [frame |-> [frame EXCEPT !.pc = "done",
                                            !.cache_writes = @ + 1],
                    file |-> save_rates_cache(frame.all_rates,
                                              frame.all_sources, now),
                    history |-> history]
         [] OTHER -> same @@ [frame |-> frame]

----------------------------------------------------------------------------
(* The provider clients (parser_service/api_clients.py)                    *)
(* The JSON a provider answers with is modelled by the part the client     *)
(* reads: for CoinGecko a dict coin id -> quote in USD, for                *)
(* ExchangeRate-API the keys "result", "conversion_rates" and "rates".     *)
(* A request that raised is [ok |-> FALSE].                                *)
(***************************************************************************)

\* bool(response) of a requests.Response: Response.__bool__ returns
\* self.ok, which is False for the statuses raise_for_status() raises on
ResponseBool(status_code) == status_code < 400

\* BaseApiClient._make_request on the outcome of requests.get(),
\* raise_for_status() and response.json().  outcome.kind is "ok" or the
\* class of the exception: "Timeout", "ConnectionError", "HTTPError" (with
\* the status of its response), "JSONDecodeError" (the class requests
\* raises from response.json() since 2.27, a RequestException and a
\* ValueError), "ValueError" (what older versions raise), or
\* "RequestException" for any other.  Gives the parsed JSON, or the
\* ApiRequestError with the cause its message names and the status code
\* the message carries.
_make_request(outcome) ==
    CASE outcome.kind = "ok" ->
           [ok |-> TRUE, err |-> "ok", cause |-> "", status_code |-> 0,
            data |-> outcome.data]
      [] outcome.kind = "Timeout" ->
           [ok |-> FALSE, err |-> "ApiRequestError", cause |-> "timeout",
            status_code |-> 0, data |-> EmptyMap]
      [] outcome.kind = "ConnectionError" ->
           [ok |-> FALSE, err |-> "ApiRequestError", cause |-> "connection",
            status_code |-> 0, data |-> EmptyMap]
      [] outcome.kind = "HTTPError" ->
           LET status_code == IF ResponseBool(outcome.status)
                              THEN outcome.status ELSE 0 IN
           IF status_code = 429
           THEN [ok |-> FALSE, err |-> "ApiRequestError",
                 cause |-> "rate_limited", status_code |-> status_code,
                 data |-> EmptyMap]
           ELSE [ok |-> FALSE, err |-> "ApiRequestError",
                 cause |-> "http_status", status_code |-> status_code,
                 data |-> EmptyMap]
      [] outcome.kind \in {"RequestException", "JSONDecodeError"} ->
           [ok |-> FALSE, err |-> "ApiRequestError", cause |-> "request",
            status_code |-> 0, data |-> EmptyMap]
      [] outcome.kind = "ValueError" ->
           [ok |-> FALSE, err |-> "ApiRequestError", cause |-> "bad_json",
            status_code |-> 0, data |-> EmptyMap]

\* config.CRYPTO_CURRENCIES, in order
CRYPTO_CURRENCIES == <<BTC, ETH, SOL, LTC, XRP, ADA, DOT>>

\* config.CRYPTO_ID_MAP
CRYPTO_ID_MAP ==
    [c \in {BTC, ETH, SOL, LTC, XRP, ADA, DOT} |->
        CASE c = BTC -> "bitcoin"
          [] c = ETH -> "ethereum"
          [] c = SOL -> "solana"
          [] c = LTC -> "litecoin"
          [] c = XRP -> "ripple"
          [] c = ADA -> "cardano"
          [] c = DOT -> "polkadot"]

\* config.FIAT_CURRENCIES, in order
FIAT_CURRENCIES == <<EUR, GBP, RUB, JPY, CHF, CNY, CAD, AUD>>

\* config.BASE_CURRENCY
BASE_CURRENCY == USD

\* the loop of CoinGeckoClient.fetch_rates over the codes: the items
\* <<pair key, float(quote)>> of the coins the answer holds
RECURSIVE CryptoItems(_, _)
CryptoItems(codes, response_data) ==
    IF codes = <<>> THEN <<>>
    ELSE LET crypto_code == Head(codes)
             rest == CryptoItems(Tail(codes), response_data) IN
         IF crypto_code \notin DOMAIN CRYPTO_ID_MAP
            \/ CRYPTO_ID_MAP[crypto_code] \notin DOMAIN response_data
         THEN rest
         ELSE << <<PairKey(crypto_code, BASE_CURRENCY),
                   response_data[CRYPTO_ID_MAP[crypto_code]]>> >> \o rest

\* CoinGeckoClient.fetch_rates on the answer of _make_request
CoinGecko_fetch_rates(response) ==
    IF ~response.ok THEN [ok |-> FALSE, rates |-> <<>>]
    ELSE [ok |-> TRUE, rates |-> CryptoItems(CRYPTO_CURRENCIES, response.data)]

\* the loop of ExchangeRateApiClient.fetch_rates over the codes
RECURSIVE FiatItems(_, _)
FiatItems(codes, rates_data) ==
    IF codes = <<>> THEN <<>>
    ELSE LET fiat_code == Head(codes)
             rest == FiatItems(Tail(codes), rates_data) IN
         IF fiat_code = BASE_CURRENCY \/ fiat_code \notin DOMAIN rates_data
         THEN rest
         ELSE << <<PairKey(fiat_code, BASE_CURRENCY), rates_data[fiat_code]>> >>
              \o rest

\* ExchangeRateApiClient.fetch_rates on the answer of _make_request (the
\* second loop, over common_currencies, names the codes of
\* FIAT_CURRENCIES and so adds nothing the first loop has not found)
ExchangeRate_fetch_rates(response) ==
    IF ~response.ok THEN [ok |-> FALSE, rates |-> <<>>]
    ELSE IF response.result # "success" THEN [ok |-> FALSE, rates |-> <<>>]
    ELSE LET rates_data == IF DOMAIN response.conversion_rates # {}
                           THEN response.conversion_rates
                           ELSE response.rates IN
         IF DOMAIN rates_data = {} THEN [ok |-> FALSE, rates |-> <<>>]
         ELSE [ok |-> TRUE, rates |-> FiatItems(FIAT_CURRENCIES, rates_data)]

\* bool(s) of an optional string: None ("None") and "" are false
Truthy(s) == s \notin {"None", ""}

\* ExchangeRateApiClient.__init__ that accepts a missing key
ExchangeRateApiClient_init_lazy(api_key, EXCHANGERATE_API_KEY) ==
    [err |-> "ok",
     api_key |-> IF api_key \notin {"None", ""}
                 THEN api_key ELSE EXCHANGERATE_API_KEY]

\* ExchangeRateApiClient.__init__(api_key), config.EXCHANGERATE_API_KEY
\* being the environment's value ("" when unset)
ExchangeRateApiClient_init(api_key, EXCHANGERATE_API_KEY) ==
    LET self_api_key == IF Truthy(api_key)
                        THEN api_key ELSE EXCHANGERATE_API_KEY IN
    IF ~Truthy(self_api_key)
    THEN [err |-> "ValueError", api_key |-> self_api_key]
    ELSE [err |-> "ok", api_key |-> self_api_key]

\* RatesUpdater.__init__(fiat_client=...): fiat_client_given is whether the
\* caller passed a client; gives whether self.fiat_client is set
RatesUpdater_init(fiat_client_given, EXCHANGERATE_API_KEY) ==
    IF fiat_client_given
    THEN [err |-> "ok", has_fiat_client |-> TRUE]
    ELSE [err |-> "ok",
          has_fiat_client |->
              ExchangeRateApiClient_init("None", EXCHANGERATE_API_KEY).err
                  = "ok"]

----------------------------------------------------------------------------
(* State *)

VARIABLES
    _portfolios,      \* PortfolioManager._portfolios
    portfolios_file,  \* data/portfolios.json
    _rates,           \* RateManager._rates
    rates_file,       \* data/rates.json
    history_file,     \* data/exchange_rates.json
    now,              \* the clock, in seconds
    ticks,            \* how many times the clock has advanced
    last              \* the last operation and its outcome

vars == <<_portfolios, portfolios_file, _rates, rates_file, history_file,
          now, ticks, last>>

\* the inputs the model passes
Users == {1, 2}

Amounts == 0..MaxAmount

LedgerCodes ==
    {BTC, <<" ", "b", "t", "c">>, LTC, <<"X", "Y", "Z">>, <<"B">>, <<>>}

RateCodes == {BTC, USD, LTC}

Delays == {1, rates_ttl_seconds}

\* the two managers as the operators take them
PM == [portfolios |-> _portfolios, file |-> portfolios_file]

RM == [rates |-> _rates, file |-> rates_file]

\* CLIInterface.__init__ on an empty data directory: both managers are
\* constructed and load their (missing) files
Init ==
    /\ portfolios_file = NoPortfoliosFile
    /\ rates_file = NoRatesFile
    /\ history_file = <<>>
    /\ _portfolios = _load_portfolios(NoPortfoliosFile)
    /\ _rates = _load_rates(NoRatesFile)
    /\ now = 0
    /\ ticks = 0
    /\ last = [op |-> "init", err |-> "ok"]

\* time passes
Tick ==
    \E dt \in Delays :
        /\ ticks < MaxTicks
        /\ ticks' = ticks + 1
        /\ now' = now + dt
        /\ last' = [op |-> "tick", err |-> "ok"]
        /\ UNCHANGED <<_portfolios, portfolios_file, _rates, rates_file,
                       history_file>>

BalancesWithin(portfolios) ==
    \A u \in DOMAIN portfolios : \A c \in DOMAIN portfolios[u] :
        portfolios[u][c] <= MaxBalance

\* a call of PortfolioManager.buy_currency
Buy ==
    \E user_id \in Users, currency \in LedgerCodes, amount \in Amounts :
        \E r \in {buy_currency(PM, RM, now, user_id, currency, amount)} :
        /\ BalancesWithin(r.portfolios)
        /\ _portfolios' = r.portfolios
        /\ portfolios_file' = r.pfile
        /\ _rates' = r.rates
        /\ rates_file' = r.rfile
        /\ last' = [op |-> "buy", err |-> r.err]
        /\ UNCHANGED <<history_file, now, ticks>>

\* a call of PortfolioManager.sell_currency
Sell ==
    \E user_id \in Users, currency \in LedgerCodes, amount \in Amounts :
        \E r \in {sell_currency(PM, RM, now, user_id, currency, amount)} :
        /\ _portfolios' = r.portfolios
        /\ portfolios_file' = r.pfile
        /\ _rates' = r.rates
        /\ rates_file' = r.rfile
        /\ last' = [op |-> "sell", err |-> r.err]
        /\ UNCHANGED <<history_file, now, ticks>>

\* a new process: PortfolioManager() and RateManager() load their files
Restart ==
    /\ _portfolios' = _load_portfolios(portfolios_file)
    /\ _rates' = _load_rates(rates_file)
    /\ last' = [op |-> "restart", err |-> "ok"]
    /\ UNCHANGED <<portfolios_file, rates_file, history_file, now, ticks>>

\* a call of RateManager.get_or_fetch_rate
GetOrFetchRate ==
    \E from_currency \in RateCodes, to_currency \in RateCodes :
        \E r \in {get_or_fetch_rate(_rates, rates_file, now,
                                    from_currency, to_currency)} :
        /\ _rates' = r.rates
        /\ rates_file' = r.file
        /\ last' = [op |-> "get_or_fetch_rate", err |-> r.err,
                    from |-> from_currency, to |-> to_currency,
                    fallback |-> r.fallback,
                    stale |-> /\ r.fallback
                              /\ \/ PairKey(from_currency, to_currency)
                                       \in DOMAIN _rates.top
                                 \/ PairKey(to_currency, from_currency)
                                       \in DOMAIN _rates.top]
        /\ UNCHANGED <<_portfolios, portfolios_file, history_file, now, ticks>>

\* what the providers may answer
CryptoResults ==
    {[ok |-> FALSE, rates |-> <<>>],
     [ok |-> TRUE, rates |-> <<>>],
     [ok |-> TRUE, rates |-> << <<PairKey(BTC, USD), <<60000, 1>>>> >>]}

FiatResults ==
    {[ok |-> FALSE, rates |-> <<>>],
     [ok |-> TRUE, rates |-> << <<PairKey(EUR, USD), <<92, 100>>>> >>]}

Sources == {"None", "CoinGecko", "exchangerate", "bogus"}

\* the answer of a provider that the call does not reach
NotCalled == [ok |-> FALSE, rates |-> <<>>]

\* a call of RatesUpdater().run_update(source), as CLIInterface.update_rates
\* makes it: the fiat client exists when the API key is configured
RunUpdate ==
    \E source \in Sources, has_fiat_client \in BOOLEAN :
    \E crypto \in IF source \in {"None", "CoinGecko"}
                  THEN CryptoResults ELSE {NotCalled},
       fiat \in IF source \in {"None", "exchangerate"} /\ has_fiat_client
                THEN FiatResults ELSE {NotCalled} :
        \E r \in {run_update(rates_file, history_file, now, source,
                             crypto, fiat, has_fiat_client)} :
        /\ Len(r.history) <= MaxHistory
        /\ rates_file' = r.file
        /\ history_file' = r.history
        /\ last' = [op |-> "run_update", err |-> r.err]
        /\ UNCHANGED <<_portfolios, portfolios_file, _rates, now, ticks>>

NextLedger == Buy \/ Sell \/ Restart \/ Tick

\* the ledger, with the resolver it calls
SpecLedger == Init /\ [][NextLedger]_vars

NextRates == GetOrFetchRate \/ RunUpdate \/ Restart \/ Tick

\* the resolver and the update orchestrator
SpecRates == Init /\ [][NextRates]_vars

Next == Buy \/ Sell \/ GetOrFetchRate \/ RunUpdate \/ Restart \/ Tick

Spec == Init /\ [][Next]_vars

\* what the providers may answer to the update orchestrator: an exception,
\* nothing, one rate, two rates; both may name BTC_USD
BatchCrypto ==
    {[ok |-> FALSE, rates |-> <<>>],
     [ok |-> TRUE, rates |-> <<>>],
     [ok |-> TRUE, rates |-> << <<PairKey(BTC, USD), <<60000, 1>>>> >>],
     [ok |-> TRUE, rates |-> << <<PairKey(BTC, USD), <<60000, 1>>>>,
                                <<PairKey(ETH, USD), <<3000, 1>>>> >>]}

BatchFiat ==
    {[ok |-> FALSE, rates |-> <<>>],
     [ok |-> TRUE, rates |-> <<>>],
     [ok |-> TRUE, rates |-> << <<PairKey(EUR, USD), <<92, 100>>>> >>],
     [ok |-> TRUE, rates |-> << <<PairKey(BTC, USD), <<59000, 1>>>>,
                                <<PairKey(EUR, USD), <<92, 100>>>> >>]}

\* the pair keys of a provider's items
Keys(items) == {items[i][1] : i \in 1..Len(items)}

\* a call of RatesUpdater().run_update(source) with these providers
RunUpdateBatch ==
    \E source \in Sources, has_fiat_client \in BOOLEAN :
    \E crypto \in IF source \in {"None", "CoinGecko"}
                  THEN BatchCrypto ELSE {NotCalled},
       fiat \in IF source \in {"None", "exchangerate"} /\ has_fiat_client
                THEN BatchFiat ELSE {NotCalled} :
        \E r \in {run_update(rates_file, history_file, now, source,
                             crypto, fiat, has_fiat_client)} :
        /\ Len(r.history) <= MaxBatchHistory
        /\ rates_file' = r.file
        /\ history_file' = r.history
        /\ last' = [op |-> "run_update", err |-> r.err,
                    total |-> r.total_rates, errors |-> Len(r.errors),
                    overlap |-> /\ crypto.ok /\ fiat.ok
                                /\ Keys(crypto.rates) \cap Keys(fiat.rates)
                                      # {}]
        /\ UNCHANGED <<_portfolios, portfolios_file, _rates, now, ticks>>

NextUpdate == RunUpdateBatch \/ Tick

\* the update orchestrator on its own
SpecUpdate == Init /\ [][NextUpdate]_vars

\* a file that holds no complete JSON document: zero bytes after
\* open(path, "w"), or the first part of the document during json.dump
TornFile(how) == [exists |-> TRUE, torn |-> how]

\* utils.save_json(file, new): the contents of the target file after each
\* of its steps: before the call, after open(file_path, "w") has truncated
\* it, while json.dump is writing, after the with block has closed it
save_json_steps(old, new) ==
    <<old, TornFile("empty"), TornFile("partial"), new>>

\* RatesStorage._write_atomic(file, new): the contents of the target file
\* after each of its steps: before the call, while json.dump is writing the
\* .tmp file, after the .tmp file is closed, after temp_file.replace
_write_atomic_steps(old, new) == <<old, old, old, new>>

\* the process dies inside the save_json call of RateManager.update_rate
CrashInUpdateRate ==
    \E from_currency \in RateCodes, to_currency \in RateCodes :
        LET r == get_or_fetch_rate(_rates, rates_file, now,
                                   from_currency, to_currency)
            steps == save_json_steps(rates_file, r.file) IN
        /\ last.op # "crash"
        /\ r.wrote
        /\ \E i \in 1..Len(steps) : rates_file' = steps[i]
        /\ _rates' = r.rates
        /\ last' = [op |-> "crash", err |-> "ok",
                    before |-> rates_file, after |-> r.file,
                    hbefore |-> history_file, hafter |-> history_file]
        /\ UNCHANGED <<_portfolios, portfolios_file, history_file, now, ticks>>

\* the process dies inside the _write_atomic call of save_rates_cache, at
\* the end of run_update
CrashInSaveRatesCache ==
    \E source \in Sources, has_fiat_client \in BOOLEAN :
    \E crypto \in IF source \in {"None", "CoinGecko"}
                  THEN CryptoResults ELSE {NotCalled},
       fiat \in IF source \in {"None", "exchangerate"} /\ has_fiat_client
                THEN FiatResults ELSE {NotCalled} :
        LET r == run_update(rates_file, history_file, now, source,
                            crypto, fiat, has_fiat_client)
            steps == _write_atomic_steps(rates_file, r.file) IN
        /\ last.op # "crash"
        /\ r.err = "ok"
        /\ Len(r.history) <= MaxHistory
        /\ \E i \in 1..Len(steps) : rates_file' = steps[i]
        /\ history_file' = r.history
        /\ last' = [op |-> "crash", err |-> "ok",
                    before |-> rates_file, after |-> r.file,
                    hbefore |-> r.history, hafter |-> r.history]
        /\ UNCHANGED <<_portfolios, portfolios_file, _rates, now, ticks>>

\* the process dies inside the _write_atomic call of the first
\* save_rate_to_history of a run_update
CrashInHistoryAppend ==
    \E crypto \in CryptoResults :
        LET new == SaveItemsToHistory(history_file, now,
                                      SubSeq(crypto.rates, 1, 1), "CoinGecko")
            steps == _write_atomic_steps(history_file, new) IN
        /\ last.op # "crash"
        /\ crypto.ok /\ crypto.rates # <<>>
        /\ Len(new) <= MaxHistory
        /\ \E i \in 1..Len(steps) : history_file' = steps[i]
        /\ last' = [op |-> "crash", err |-> "ok",
                    before |-> rates_file, after |-> rates_file,
                    hbefore |-> history_file, hafter |-> new]
        /\ UNCHANGED <<_portfolios, portfolios_file, _rates, rates_file,
                       now, ticks>>

NextCrash ==
    \/ last.op # "crash" /\ (GetOrFetchRate \/ RunUpdate \/ Tick)
    \/ CrashInUpdateRate
    \/ CrashInSaveRatesCache
    \/ CrashInHistoryAppend

\* the resolver and the update orchestrator, with a process that may die
\* inside a write; nothing runs after the crash
SpecCrash == Init /\ [][NextCrash]_vars

\* time passes, for the resolver on its own
TickResolver ==
    \E dt \in Delays :
        /\ ticks < MaxResolverTicks
        /\ ticks' = ticks + 1
        /\ now' = now + dt
        /\ last' = [op |-> "tick", err |-> "ok"]
        /\ UNCHANGED <<_portfolios, portfolios_file, _rates, rates_file,
                       history_file>>

NextResolver == GetOrFetchRate \/ TickResolver

\* one RateManager over a longer time
SpecResolver == Init /\ [][NextResolver]_vars

\* what CoinGecko may answer: the request raises, no coin, a quote for
\* bitcoin that is positive, zero or negative, a coin the client does not
\* track
CoinGeckoAnswers ==
    {[ok |-> FALSE, data |-> EmptyMap],
     [ok |-> TRUE, data |-> EmptyMap],
     [ok |-> TRUE, data |-> [k \in {"bitcoin"} |-> <<60000, 1>>]],
     [ok |-> TRUE, data |-> [k \in {"bitcoin"} |-> <<0, 1>>]],
     [ok |-> TRUE, data |-> [k \in {"bitcoin", "dogecoin"} |->
                               IF k = "bitcoin" THEN <<0 - 1, 1>>
                               ELSE <<1, 10>>]]}

\* what ExchangeRate-API may answer: the request raises, an error result,
\* no rates, a rate for EUR that is positive or zero (under either key),
\* rates for untracked codes only
ExchangeRateAnswers ==
    {[ok |-> FALSE, result |-> "", conversion_rates |-> EmptyMap,
      rates |-> EmptyMap],
     [ok |-> TRUE, result |-> "error", conversion_rates |-> EmptyMap,
      rates |-> EmptyMap],
     [ok |-> TRUE, result |-> "success", conversion_rates |-> EmptyMap,
      rates |-> EmptyMap],
     [ok |-> TRUE, result |-> "success",
      conversion_rates |-> [k \in {USD, EUR} |->
                               IF k = USD THEN <<1, 1>> ELSE <<92, 100>>],
      rates |-> EmptyMap],
     [ok |-> TRUE, result |-> "success", conversion_rates |-> EmptyMap,
      rates |-> [k \in {EUR} |-> <<0, 1>>]],
     [ok |-> TRUE, result |-> "success",
      conversion_rates |-> [k \in {USD} |-> <<1, 1>>],
      rates |-> EmptyMap]}

\* the answer for a provider the call does not reach
NoAnswer ==
    [ok |-> FALSE, data |-> EmptyMap, result |-> "",
     conversion_rates |-> EmptyMap, rates |-> EmptyMap]

\* a call of RatesUpdater().run_update(source) whose clients receive these
\* answers
RunUpdateQuotes ==
    \E source \in Sources, has_fiat_client \in BOOLEAN :
    \E cg \in IF source \in {"None", "CoinGecko"}
              THEN CoinGeckoAnswers ELSE {NoAnswer},
       er \in IF source \in {"None", "exchangerate"} /\ has_fiat_client
              THEN ExchangeRateAnswers ELSE {NoAnswer} :
        \E r \in {run_update(rates_file, history_file, now, source,
                             CoinGecko_fetch_rates(cg),
                             ExchangeRate_fetch_rates(er),
                             has_fiat_client)} :
        /\ Len(r.history) <= MaxQuoteHistory
        /\ rates_file' = r.file
        /\ history_file' = r.history
        /\ last' = [op |-> "run_update", err |-> r.err]
        /\ UNCHANGED <<_portfolios, portfolios_file, _rates, now, ticks>>

NextQuotes == GetOrFetchRate \/ RunUpdateQuotes

\* the resolver and the update orchestrator, the providers answering with
\* any quote
SpecQuotes == Init /\ [][NextQuotes]_vars

\* the providers a run_update(source) calls
Selected(source, has_fiat_client) ==
    (IF source = "None" \/ SourceLower(source) = "coingecko"
     THEN {"crypto"} ELSE {})
    \cup (IF (source = "None" \/ SourceLower(source) = "exchangerate")
              /\ has_fiat_client
          THEN {"fiat"} ELSE {})

\* the frame of run_update(source) at its first fetch_rates() call, or at
\* "if not all_rates" when it calls no provider; returned is the set of
\* providers whose fetch_rates() has returned or raised so far
run_update_begin(source, has_fiat_client, file) ==
    [op |-> "run_update_step", err |-> "ok",
     pc |-> IF "crypto" \in Selected(source, has_fiat_client)
            THEN "crypto_fetch"
            ELSE IF "fiat" \in Selected(source, has_fiat_client)
            THEN "fiat_fetch" ELSE "check",
     source |-> source, has_fiat_client |-> has_fiat_client,
     all_rates |-> EmptyMap, all_sources |-> EmptyMap, errors |-> <<>>,
     pending |-> <<>>, fetched |-> <<>>,
     start_file |-> file, cache_writes |-> 0, returned |-> {}]

\* a run_update is between its call and its return
Running == last.op = "run_update_step" /\ last.pc \notin {"done", "raised"}

\* run_update(source) is called
RunUpdateStart ==
    \E source \in Sources, has_fiat_client \in BOOLEAN :
        /\ ~Running
        /\ last' = run_update_begin(source, has_fiat_client, rates_file)
        /\ UNCHANGED <<_portfolios, portfolios_file, _rates, rates_file,
                       history_file, now, ticks>>

\* the fetch_rates() call in progress returns or raises
RunUpdateFetchReturn ==
    /\ Running
    /\ last.pc \in {"crypto_fetch", "fiat_fetch"}
    /\ \E answer \in IF last.pc = "crypto_fetch"
                      THEN BatchCrypto ELSE BatchFiat :
        \E n \in {run_update_step(last, rates_file, history_file, now,
                                   answer)} :
        /\ Len(history_file) + Len(answer.rates) <= MaxBatchHistory
        /\ last' = [n.frame EXCEPT !.returned =
                        @ \cup {IF last.pc = "crypto_fetch"
                                THEN "crypto" ELSE "fiat"}]
        /\ rates_file' = n.file
        /\ history_file' = n.history
        /\ UNCHANGED <<_portfolios, portfolios_file, _rates, now, ticks>>

\* run_update takes its next step outside a fetch_rates() call
RunUpdateStep ==
    /\ Running
    /\ last.pc \notin {"crypto_fetch", "fiat_fetch"}
    /\ \E n \in {run_update_step(last, rates_file, history_file, now,
                                   NotCalled)} :
        /\ last' = n.frame
        /\ rates_file' = n.file
        /\ history_file' = n.history
        /\ UNCHANGED <<_portfolios, portfolios_file, _rates, now, ticks>>

NextSteps == RunUpdateStart \/ RunUpdateFetchReturn \/ RunUpdateStep

\* run_update takes its next step outside a fetch_rates() call, on a
\* clock that counts in the resolution of datetime.utcnow(): a step that
\* has called save_rate_to_history (one reading of the clock, then the
\* load and the write of exchange_rates.json) ends at a later reading
RunUpdateStepClocked ==
    /\ Running
    /\ last.pc \notin {"crypto_fetch", "fiat_fetch"}
    /\ \E n \in {run_update_step(last, rates_file, history_file, now,
                                   NotCalled)} :
        /\ last' = n.frame
        /\ rates_file' = n.file
        /\ history_file' = n.history
        /\ now' = IF n.history # history_file THEN now + 1 ELSE now
        /\ UNCHANGED <<_portfolios, portfolios_file, _rates, ticks>>

NextClocked == RunUpdateStart \/ RunUpdateFetchReturn \/ RunUpdateStepClocked

\* the update orchestrator, step by step, with the clock its history
\* records are stamped by
SpecClocked == Init /\ [][NextClocked]_vars

\* the update orchestrator, step by step
SpecSteps == Init /\ [][NextSteps]_vars

\* the values of EXCHANGERATE_API_KEY in the environment: unset, set
EnvKeys == {"", "key"}

\* CLIInterface.update_rates(source): RatesUpdater() is constructed in the
\* environment, then run_update(source) is called
UpdateRates ==
    \E key \in EnvKeys, source \in Sources :
    \E u \in {RatesUpdater_init(FALSE, key)} :
    \E crypto \in IF source \in {"None", "CoinGecko"}
                  THEN CryptoResults ELSE {NotCalled},
       fiat \in IF source \in {"None", "exchangerate"} /\ u.has_fiat_client
                THEN FiatResults ELSE {NotCalled} :
        \E r \in {run_update(rates_file, history_file, now, source,
                             crypto, fiat, u.has_fiat_client)} :
        /\ Len(r.history) <= MaxBatchHistory
        /\ rates_file' = r.file
        /\ history_file' = r.history
        /\ last' = [op |-> "update_rates", err |-> r.err,
                    errors |-> Len(r.errors), key |-> key, source |-> source]
        /\ UNCHANGED <<_portfolios, portfolios_file, _rates, now, ticks>>

NextConfig == UpdateRates \/ Tick

\* the update command in an environment with or without the credential
SpecConfig == Init /\ [][NextConfig]_vars

\* the outcomes of a request to CoinGecko
RequestOutcomes ==
    {[kind |-> "ok", status |-> 200,
      data |-> [k \in {"bitcoin"} |-> <<60000, 1>>]],
     [kind |-> "ok", status |-> 200,
      data |-> [k \in {"bitcoin", "ethereum"} |->
                   IF k = "bitcoin" THEN <<61000, 1>> ELSE <<3000, 1>>]]}
    \cup {[kind |-> k, status |-> 0, data |-> EmptyMap] :
             k \in {"Timeout", "ConnectionError", "RequestException",
                    "JSONDecodeError", "ValueError"}}
    \cup {[kind |-> "HTTPError", status |-> st, data |-> EmptyMap] :
             st \in {429, 404, 500}}

\* a call of RatesUpdater().run_update("coingecko") whose request has this
\* outcome; the error of a failed request is the one run_update reports
RunUpdateRequest ==
    \E outcome \in RequestOutcomes :
    \E q \in {_make_request(outcome)} :
    \E r \in {run_update(rates_file, history_file, now, "CoinGecko",
                         CoinGecko_fetch_rates(q), NotCalled, FALSE)} :
        /\ Len(r.history) <= MaxQuoteHistory
        /\ rates_file' = r.file
        /\ history_file' = r.history
        /\ last' = [op |-> "request", err |-> r.err, kind |-> outcome.kind,
                    status |-> outcome.status, raised |-> q.err,
                    cause |-> q.cause, status_code |-> q.status_code]
        /\ UNCHANGED <<_portfolios, portfolios_file, _rates, now, ticks>>

NextRequests == RunUpdateRequest \/ Tick

\* the crypto client's requests
SpecRequests == Init /\ [][NextRequests]_vars

\* a call of Wallet.withdraw(amount) on one of the wallets in memory, with
\* any amount up to one more than the largest balance
WalletWithdraw ==
    \E user_id \in DOMAIN _portfolios :
    \E currency_code \in DOMAIN _portfolios[user_id] :
    \E amount \in (0 - 1)..(MaxBalance + 1) :
    \E w \in {withdraw(_portfolios[user_id][currency_code], amount)} :
        /\ _portfolios' = [_portfolios EXCEPT
                              ![user_id][currency_code] = w.balance]
        /\ last' = [op |-> "withdraw", err |-> w.err, user |-> user_id,
                    currency |-> currency_code, amount |-> amount,
                    balance |-> _portfolios[user_id][currency_code]]
        /\ UNCHANGED <<portfolios_file, _rates, rates_file, history_file,
                       now, ticks>>

NextWallet == Buy \/ WalletWithdraw

\* the wallets, filled by purchases and debited directly
SpecWallet == Init /\ [][NextWallet]_vars

\* the currency arguments the trading calls are given: registered with a
\* fallback rate (BTC, also with a leading space and in lower case; USD,
\* the base currency), registered without one (LTC), well-formed but not
\* registered (XYZ, SOL), and malformed (one character, empty, blank, a
\* space inside, a character that is not alphanumeric, six characters)
TradeCodes ==
    {BTC, <<" ", "b", "t", "c">>, USD, LTC, <<"X", "Y", "Z">>, SOL,
     <<"B">>, <<>>, <<" ">>, <<"B", " ", "T">>, <<"B", "-", "T">>,
     <<"A", "B", "C", "D", "E", "F">>}

TradeAmounts == (0 - 1)..MaxAmount

\* the <<user, currency>> of the buy_currency calls that have succeeded so
\* far (kept in last by the trading calls)
Bought == IF "bought" \in DOMAIN last THEN last.bought ELSE {}

\* a call of PortfolioManager.buy_currency with these arguments
TradeBuy ==
    \E user_id \in Users, currency \in TradeCodes, amount \in TradeAmounts :
        \E r \in {buy_currency(PM, RM, now, user_id, currency, amount)} :
        /\ BalancesWithin(r.portfolios)
        /\ _portfolios' = r.portfolios
        /\ portfolios_file' = r.pfile
        /\ _rates' = r.rates
        /\ rates_file' = r.rfile
        /\ last' = [op |-> "buy", err |-> r.err,
                    bought |-> IF r.err = "ok"
                               THEN Bought \cup {<<user_id,
                                       StrUpper(StrStrip(currency))>>}
                               ELSE Bought]
        /\ UNCHANGED <<history_file, now, ticks>>

\* a call of PortfolioManager.sell_currency with these arguments
TradeSell ==
    \E user_id \in Users, currency \in TradeCodes, amount \in TradeAmounts :
        \E r \in {sell_currency(PM, RM, now, user_id, currency, amount)} :
        /\ _portfolios' = r.portfolios
        /\ portfolios_file' = r.pfile
        /\ _rates' = r.rates
        /\ rates_file' = r.rfile
        /\ last' = [op |-> "sell", err |-> r.err, bought |-> Bought]
        /\ UNCHANGED <<history_file, now, ticks>>

NextTrade == TradeBuy \/ TradeSell

\* the ledger over two currencies and every kind of argument
SpecTrade == Init /\ [][NextTrade]_vars

\* the characters of the generated code arguments: a lower-case letter, a
\* digit, a space and a character that is not alphanumeric
CodeChars == {"b", "1", " ", "-"}

\* the arguments of validate_currency_code: every string of up to
\* MaxCodeLen of these characters, and the arguments of the trading calls
CodeInputs ==
    TradeCodes \cup UNION {[1..n -> CodeChars] : n \in 0..MaxCodeLen}

\* validate_currency_code(currency_code) is called
ValidateCode ==
    \E currency_code \in CodeInputs :
        \E v \in {validate_currency_code(currency_code)} :
        /\ last.op = "init"
        /\ last' = [op |-> "validate_currency_code", err |-> v.err,
                    arg |-> currency_code, code |-> v.code]
        /\ UNCHANGED <<_portfolios, portfolios_file, _rates, rates_file,
                       history_file, now, ticks>>

\* validate_currency_code is called on the code it has returned
ValidateAgain ==
    /\ last.op = "validate_currency_code"
    /\ last.err = "ok"
    /\ \E v \in {validate_currency_code(last.code)} :
        /\ last' = [op |-> "validate_again", err |-> v.err,
                    arg |-> last.code, code |-> v.code, first |-> last.arg]
        /\ UNCHANGED <<_portfolios, portfolios_file, _rates, rates_file,
                       history_file, now, ticks>>

NextCodes == ValidateCode \/ ValidateAgain

\* the code validation on its own
SpecCodes == Init /\ [][NextCodes]_vars

NextOrder == Buy \/ Sell

\* the ledger without restarts and at one instant
SpecOrder == Init /\ [][NextOrder]_vars

----------------------------------------------------------------------------
(* Properties of the ledger *)

\* the wallets of a portfolio dict, as <<user, code, balance>>
WalletSet(portfolios) ==
    UNION {{<<u, c, portfolios[u][c]>> : c \in DOMAIN portfolios[u]} :
              u \in DOMAIN portfolios}

HasWallet(portfolios, u, c) ==
    u \in DOMAIN portfolios /\ c \in DOMAIN portfolios[u]

\* the balance of a wallet, 0 when there is none
BalanceOf(portfolios, u, c) ==
    IF HasWallet(portfolios, u, c) THEN portfolios[u][c] ELSE 0

\* the (currency, amount) arguments that pass validation, with the code
\* the ledger works with
\* validate_currency_code and get_currency on each code the model passes
NormalizedCodes == [c \in LedgerCodes |-> validate_currency_code(c)]

KnownCodes ==
    {c \in LedgerCodes : /\ NormalizedCodes[c].err = "ok"
                         /\ get_currency(NormalizedCodes[c].code) = "ok"}

ValidKnown(currency, amount) == amount > 0 /\ currency \in KnownCodes

Code(currency) == NormalizedCodes[currency].code

\* C1: after any sequence of buy_currency and sell_currency calls, every
\* wallet balance of every portfolio, in memory and in portfolios.json,
\* is >= 0.
C1_BalanceNonNegative ==
    /\ \A w \in WalletSet(_portfolios) : w[3] >= 0
    /\ \A u \in DOMAIN portfolios_file.data :
        \A c \in DOMAIN portfolios_file.data[u].wallets :
            portfolios_file.data[u].wallets[c].balance >= 0

\* a sell has succeeded and emptied a wallet, and a failed sell follows
C1_Witness ==
    /\ last.op = "sell"
    /\ last.err = "InsufficientFundsError"
    /\ \E w \in WalletSet(_portfolios) : w[3] = 0

\* C2: sell_currency of a valid, known currency with a positive amount
\* fails with WalletNotFoundError when the user has no wallet for it, and
\* with InsufficientFundsError(available = balance, required = amount) when
\* amount > balance; in both cases get_or_fetch_rate is not called and the
\* wallets, RateManager._rates and rates.json are unchanged.
C2_SellChecksBeforeRate ==
    \A u \in Users, c \in LedgerCodes, a \in Amounts :
        ValidKnown(c, a) =>
            LET r == sell_currency(PM, RM, now, u, c, a)
                untouched == /\ r.resolver_calls = 0
                             /\ r.rates = _rates
                             /\ r.rfile = rates_file
                             /\ WalletSet(r.portfolios) = WalletSet(_portfolios)
            IN /\ ~HasWallet(_portfolios, u, Code(c)) =>
                     r.err = "WalletNotFoundError" /\ untouched
               /\ (HasWallet(_portfolios, u, Code(c))
                   /\ a > _portfolios[u][Code(c)]) =>
                     /\ r.err = "InsufficientFundsError"
                     /\ r.available = _portfolios[u][Code(c)]
                     /\ r.required = a
                     /\ untouched

\* a sell has failed for a missing wallet while no rate is cached
C2_Witness ==
    /\ last.op = "sell"
    /\ last.err = "WalletNotFoundError"
    /\ DOMAIN _rates.top = {}

\* C3: in buy_currency and sell_currency, once the call reaches the rate
\* resolution: if the resolution fails, the call fails with
\* RateUnavailableError, no wallet is created and no balance changes; if it
\* succeeds, the call returns successfully and the balance has moved by
\* the amount (up for buy, down for sell).
C3_RateThenMutation ==
    \A u \in Users, c \in LedgerCodes, a \in Amounts :
        ValidKnown(c, a) =>
            LET g == get_or_fetch_rate(_rates, rates_file, now, Code(c), USD)
                b == buy_currency(PM, RM, now, u, c, a)
                s == sell_currency(PM, RM, now, u, c, a)
                old == BalanceOf(_portfolios, u, Code(c))
            IN /\ g.err # "ok" =>
                     /\ b.err = "RateUnavailableError"
                     /\ WalletSet(b.portfolios) = WalletSet(_portfolios)
                     /\ s.resolver_calls = 1 =>
                            /\ s.err = "RateUnavailableError"
                            /\ WalletSet(s.portfolios) = WalletSet(_portfolios)
               /\ g.err = "ok" =>
                     /\ b.err = "ok"
                     /\ HasWallet(b.portfolios, u, Code(c))
                     /\ b.portfolios[u][Code(c)] = old + a
                     /\ s.resolver_calls = 1 =>
                            /\ s.err = "ok"
                            /\ s.portfolios[u][Code(c)] = old - a

\* a buy has failed because no rate could be resolved
C3_Witness ==
    /\ last.op = "buy"
    /\ last.err = "RateUnavailableError"

\* C4: a successful buy_currency of amount a at resolved rate r returns
\* (r, a * r) and raises the wallet balance by exactly a (from 0 when there
\* was no wallet); a successful sell_currency returns (r, a * r) and lowers
\* the balance by exactly a.  Buying 0.01 BTC at rate 43500 costs 435.
C4_BuySellResult ==
    \A u \in Users, c \in LedgerCodes, a \in Amounts :
        LET g == get_or_fetch_rate(_rates, rates_file, now, Code(c), USD)
            b == buy_currency(PM, RM, now, u, c, a)
            s == sell_currency(PM, RM, now, u, c, a)
            old == BalanceOf(_portfolios, u, Code(c))
            \* value = (a / 100) * rate, cross-multiplied
            Priced(r) == /\ RateEq(r.rate, g.rate)
                         /\ r.value[1] * 100 * r.rate[2]
                                = a * r.rate[1] * r.value[2]
        IN /\ b.err = "ok" =>
                 /\ Priced(b)
                 /\ b.portfolios[u][Code(c)] = old + a
                 /\ (Code(c) = BTC /\ a = 1) =>
                        /\ RateEq(b.rate, <<43500, 1>>)
                        /\ RateEq(b.value, <<435, 1>>)
           /\ s.err = "ok" =>
                 /\ Priced(s)
                 /\ s.portfolios[u][Code(c)] = old - a

\* a buy has succeeded and a wallet holds MaxBalance
C4_Witness ==
    /\ last.op = "buy"
    /\ last.err = "ok"
    /\ \E w \in WalletSet(_portfolios) : w[3] = MaxBalance

----------------------------------------------------------------------------
(* Properties of the resolver *)

\* the pairs of distinct codes the model asks rates for
RatePairs == {p \in RateCodes \X RateCodes : p[1] # p[2]}

\* the key get_rate and is_rate_fresh read for (from, to): the direct
\* pair's when it is cached, else the reciprocal pair's
UsedKey(rates, from, to) ==
    IF PairKey(from, to) \in DOMAIN rates.top
    THEN PairKey(from, to) ELSE PairKey(to, from)

IsCached(rates, from, to) == UsedKey(rates, from, to) \in DOMAIN rates.top

\* the age at time t of the entry read for (from, to)
AgeAt(rates, t, from, to) ==
    t - rates.top[UsedKey(rates, from, to)].updated_at.t

\* the rate the cache gives for (from, to): the direct entry's, else the
\* inverse of the reciprocal entry's
CachedRate(rates, from, to) ==
    IF PairKey(from, to) \in DOMAIN rates.top
    THEN rates.top[PairKey(from, to)].rate
    ELSE <<rates.top[PairKey(to, from)].rate[2],
           rates.top[PairKey(to, from)].rate[1]>>

InFallbackTable(from, to) ==
    \E e \in fallback_rates : e[1] = from /\ e[2] = to

\* the times later calls are made at, relative to now
Later == {0, 1, rates_ttl_seconds, rates_ttl_seconds + 1}

\* C5: after run_update has written pair (C, USD) with rate r to
\* rates.json, a RateManager constructed afterwards returns r from
\* get_or_fetch_rate(C, USD) while the entry's age is <= TTL, without
\* consulting the fallback source.
C5_ResolverReadsUpdate ==
    \A key \in DOMAIN rates_file.pairs :
        LET entry == rates_file.pairs[key]
            g == get_or_fetch_rate(_load_rates(rates_file), rates_file, now,
                                   SplitFrom(key), SplitTo(key))
        IN (SplitTo(key) = USD
            /\ now - entry.updated_at.t <= rates_ttl_seconds) =>
               /\ g.err = "ok"
               /\ RateEq(g.rate, entry.rate)
               /\ ~g.fallback

\* C6: for from # to, a rate returned by get_or_fetch_rate is either the
\* rate of the cache entry for the pair (the direct entry, else the inverse
\* of the reciprocal entry) whose age is <= TTL, and then nothing is
\* written; or the value of the fallback source, and then the entry for
\* exactly (from, to) holds that value stamped with the current time, in
\* the manager's dict and in rates.json.  When there is neither a fresh
\* entry nor a fallback value, the call fails and dict and file are
\* unchanged.
C6_ReturnedRateIsFreshOrFetched ==
    \A p \in RatePairs :
        LET from == p[1]
            to == p[2]
            g == get_or_fetch_rate(_rates, rates_file, now, from, to)
            fresh == /\ IsCached(_rates, from, to)
                     /\ AgeAt(_rates, now, from, to) <= rates_ttl_seconds
            stored == [rate |-> g.rate, updated_at |-> LocalStamp(now)]
        IN /\ (g.err = "ok" /\ ~g.fallback) =>
                 /\ fresh
                 /\ g.rate = CachedRate(_rates, from, to)
                 /\ g.rates = _rates /\ g.file = rates_file
           /\ (g.err = "ok" /\ g.fallback) =>
                 /\ ~fresh
                 /\ InFallbackTable(from, to)
                 /\ <<from, to, g.rate[1], g.rate[2]>> \in fallback_rates
                 /\ PairKey(from, to) \in DOMAIN g.rates.top
                 /\ g.rates.top[PairKey(from, to)] = stored
                 /\ g.file.exists
                 /\ PairKey(from, to) \in DOMAIN g.file.top
                 /\ g.file.top[PairKey(from, to)] = stored
           /\ g.err # "ok" <=> (~fresh /\ ~InFallbackTable(from, to))
           /\ g.err # "ok" => (g.rates = _rates /\ g.file = rates_file)

\* a call has replaced a stale entry by the fallback value
C6_Witness ==
    /\ last.op = "get_or_fetch_rate"
    /\ last.err = "ok"
    /\ last.fallback
    /\ last.stale
    /\ last.from # last.to
    /\ now > rates_ttl_seconds
    /\ _rates.top[PairKey(last.from, last.to)].updated_at.t = now
    /\ rates_file.top = _rates.top

\* C7: when get_or_fetch_rate(A, B) has returned a rate and is called
\* again while the entry it read or stored is no older than TTL, with no
\* other write in between, the second call returns the identical rate,
\* does not consult the fallback source and writes nothing.
C7_SecondCallFromCache ==
    \A p \in RateCodes \X RateCodes, d \in Later :
        LET from == p[1]
            to == p[2]
            g1 == get_or_fetch_rate(_rates, rates_file, now, from, to)
            g2 == get_or_fetch_rate(g1.rates, g1.file, now + d, from, to)
        IN (/\ g1.err = "ok"
            /\ from # to => AgeAt(g1.rates, now + d, from, to)
                                <= rates_ttl_seconds) =>
               /\ g2.err = "ok"
               /\ g2.rate = g1.rate
               /\ ~g2.fallback
               /\ ~g2.wrote
               /\ g2.rates = g1.rates
               /\ g2.file = g1.file

\* the call just made was served from the entry that an earlier call for
\* the same pair stored; time has passed in between and nothing else has
\* written
C7_Witness ==
    /\ last.op = "get_or_fetch_rate"
    /\ last.err = "ok"
    /\ ~last.fallback
    /\ last.from # last.to
    /\ PairKey(last.from, last.to) \in DOMAIN _rates.top
    /\ PairKey(last.to, last.from) \notin DOMAIN _rates.top
    /\ AgeAt(_rates, now, last.from, last.to) > 0
    /\ rates_file.top = _rates.top

\* C8: a cached entry is fresh exactly when its age is <= TTL = 300 s: at
\* age TTL get_or_fetch_rate returns the cached rate, one second later it
\* does not read the rate from the cache.
C8_FreshIffAgeWithinTtl ==
    /\ rates_ttl_seconds = 300
    /\ \A p \in RatePairs, d \in Later :
        LET from == p[1]
            to == p[2]
            g == get_or_fetch_rate(_rates, rates_file, now + d, from, to)
        IN IsCached(_rates, from, to) =>
              /\ is_rate_fresh(_rates, now + d, from, to, <<>>)
                    <=> AgeAt(_rates, now + d, from, to) <= 300
              /\ AgeAt(_rates, now + d, from, to) <= 300 =>
                    /\ g.err = "ok" /\ ~g.fallback
                    /\ g.rate = CachedRate(_rates, from, to)
              /\ AgeAt(_rates, now + d, from, to) > 300 => g.fallback

\* a call has been served from an entry exactly TTL old
C8_Witness ==
    /\ last.op = "get_or_fetch_rate"
    /\ last.err = "ok"
    /\ ~last.fallback
    /\ last.from # last.to
    /\ AgeAt(_rates, now, last.from, last.to) = rates_ttl_seconds

\* the product of two rates is 1
ProductIsOne(a, b) == a[1] * b[1] = a[2] * b[2]

\* C9: whenever the cache holds an entry for (A, B) and none for (B, A),
\* get_or_fetch_rate(A, B) * get_or_fetch_rate(B, A) = 1, whichever of the
\* two calls is made first.
C9_ReciprocalLaw ==
    \A p \in RatePairs :
        LET a == p[1]
            b == p[2]
            ab1 == get_or_fetch_rate(_rates, rates_file, now, a, b)
            ba2 == get_or_fetch_rate(ab1.rates, ab1.file, now, b, a)
            ba1 == get_or_fetch_rate(_rates, rates_file, now, b, a)
            ab2 == get_or_fetch_rate(ba1.rates, ba1.file, now, a, b)
        IN (/\ PairKey(a, b) \in DOMAIN _rates.top
            /\ PairKey(b, a) \notin DOMAIN _rates.top) =>
               /\ ab1.err = "ok" /\ ba2.err = "ok"
               /\ ProductIsOne(ab1.rate, ba2.rate)
               /\ ba1.err = "ok" /\ ab2.err = "ok"
               /\ ProductIsOne(ab2.rate, ba1.rate)

\* C10: after any sequence of get_or_fetch_rate and run_update calls the
\* rate cache (the manager's dict and rates.json) never holds entries for
\* both a pair (A, B) and its reciprocal (B, A).
C10_NoReciprocalEntries ==
    \A p \in RatePairs :
        /\ ~(/\ PairKey(p[1], p[2]) \in DOMAIN _rates.top
             /\ PairKey(p[2], p[1]) \in DOMAIN _rates.top)
        /\ ~(/\ PairKey(p[1], p[2]) \in DOMAIN rates_file.top
             /\ PairKey(p[2], p[1]) \in DOMAIN rates_file.top)
        /\ ~(/\ PairKey(p[1], p[2]) \in DOMAIN rates_file.pairs
             /\ PairKey(p[2], p[1]) \in DOMAIN rates_file.pairs)

\* C11: when the cache holds a fresh entry for the direct pair (A, B),
\* get_or_fetch_rate(A, B) returns that entry's rate, from the cache,
\* whatever the cache holds for (B, A), also when the (B, A) entry was
\* updated more recently.
C11_FreshDirectWins ==
    \A p \in RatePairs :
        LET direct == PairKey(p[1], p[2])
            g == get_or_fetch_rate(_rates, rates_file, now, p[1], p[2])
        IN (/\ direct \in DOMAIN _rates.top
            /\ now - _rates.top[direct].updated_at.t <= rates_ttl_seconds) =>
               /\ g.err = "ok"
               /\ g.rate = _rates.top[direct].rate
               /\ ~g.fallback
               /\ g.rates = _rates

\* a call was served from the fresh direct entry while the reciprocal
\* entry is newer and would have given another rate
C11_Witness ==
    /\ last.op = "get_or_fetch_rate"
    /\ last.err = "ok"
    /\ ~last.fallback
    /\ last.from # last.to
    /\ PairKey(last.from, last.to) \in DOMAIN _rates.top
    /\ PairKey(last.to, last.from) \in DOMAIN _rates.top
    /\ _rates.top[PairKey(last.to, last.from)].updated_at.t
          > _rates.top[PairKey(last.from, last.to)].updated_at.t
    /\ ~RateEq(_rates.top[PairKey(last.from, last.to)].rate,
               RateInv(_rates.top[PairKey(last.to, last.from)].rate))

\* the codes get_or_fetch_rate(X, X) is asked for: registered with a
\* fallback rate, registered without one, unregistered, empty
IdentityCodes == RateCodes \cup {<<"X", "Y", "Z">>, <<>>}

\* C12: for every code X, registered or not, cached or not,
\* get_or_fetch_rate(X, X) returns 1.0, does not consult the fallback
\* source, writes neither the dict nor rates.json, and does not depend on
\* what rates.json holds.
C12_SamePairIsOne ==
    \A x \in IdentityCodes :
        LET g == get_or_fetch_rate(_rates, rates_file, now, x, x)
            h == get_or_fetch_rate(_rates, NoRatesFile, now, x, x)
        IN /\ g.err = "ok"
           /\ g.rate = <<1, 1>>
           /\ ~g.fallback
           /\ ~g.wrote
           /\ g.rates = _rates
           /\ g.file = rates_file
           /\ h.err = "ok" /\ h.rate = g.rate

\* get_or_fetch_rate(X, X) has been called for a code without a fallback
\* rate while the cache holds entries
C12_Witness ==
    /\ last.op = "get_or_fetch_rate"
    /\ last.err = "ok"
    /\ last.from = last.to
    /\ last.from = LTC
    /\ ~last.fallback
    /\ DOMAIN _rates.top # {}

\* C13: when the requested pair has no fresh cache entry and no source
\* yields a value for it, get_or_fetch_rate fails with the RateUnavailable
\* error.
C13_FailsWithRateUnavailable ==
    \A p \in RatePairs :
        LET g == get_or_fetch_rate(_rates, rates_file, now, p[1], p[2])
            fresh == /\ IsCached(_rates, p[1], p[2])
                     /\ AgeAt(_rates, now, p[1], p[2]) <= rates_ttl_seconds
        IN (~fresh /\ ~InFallbackTable(p[1], p[2])) =>
               g.err = "RateUnavailableError"

\* the manager after Portfolio.add_currency and Wallet.deposit have given
\* user u a wallet of currency c holding MaxBalance
Holding(u, c) ==
    LET pm1 == get_portfolio(_portfolios, portfolios_file, u)
        w == add_currency(pm1.portfolios[u], c).wallets
    IN save_portfolio(pm1.portfolios, u,
                      [w EXCEPT ![c] = deposit(w[c], MaxBalance).balance])

\* C14: buy_currency and sell_currency never fail with the resolver's
\* ApiRequestError: for a positive amount and a registered code (and, for
\* sell, a wallet that holds the amount) they fail exactly when
\* get_or_fetch_rate(code, USD) fails, and then with RateUnavailableError
\* for the pair (code, USD).
C14_RateFailureIsRateUnavailable ==
    \A u \in Users, c \in LedgerCodes, a \in Amounts :
    \A b \in {buy_currency(PM, RM, now, u, c, a)},
       s \in {sell_currency(PM, RM, now, u, c, a)} :
        /\ b.err # "ApiRequestError"
        /\ s.err # "ApiRequestError"
        /\ ValidKnown(c, a) =>
            \A g \in {get_or_fetch_rate(_rates, rates_file, now,
                                        Code(c), USD)},
               h \in {sell_currency(Holding(u, Code(c)), RM, now, u, c, a)} :
                /\ b.err \in {"ok", "RateUnavailableError"}
                /\ b.err = "RateUnavailableError" <=> g.err # "ok"
                /\ b.err = "RateUnavailableError" =>
                       b.pair = <<Code(c), USD>>
                /\ h.err \in {"ok", "RateUnavailableError"}
                /\ h.err = "RateUnavailableError" <=> g.err # "ok"
                /\ h.err = "RateUnavailableError" =>
                       h.pair = <<Code(c), USD>>

\* a buy has failed with RateUnavailableError while the cache holds a
\* rate for another pair
C14_Witness ==
    /\ last.op = "buy"
    /\ last.err = "RateUnavailableError"
    /\ DOMAIN _rates.top # {}

----------------------------------------------------------------------------
(* Properties of the update orchestrator *)

\* the rate a provider's items give for a key
ItemRate(items, k) == items[CHOOSE i \in 1..Len(items) : items[i][1] = k][2]

\* rates.json holds exactly the pairs of these items, with their rates
FileHoldsExactly(file, items) ==
    /\ file.exists
    /\ DOMAIN file.top = {}
    /\ DOMAIN file.pairs = Keys(items)
    /\ \A k \in Keys(items) : file.pairs[k].rate = ItemRate(items, k)

\* the calls of run_update the properties range over: <<source filter,
\* whether the fiat client is configured, the crypto provider's answer, the
\* fiat provider's answer>>, an answer being drawn only for a provider the
\* call reaches
BatchCalls ==
    UNION {UNION {(IF source \in {"None", "CoinGecko"}
                   THEN {<<source, client>>} \X BatchCrypto
                   ELSE {<<source, client>>} \X {NotCalled})
                  \X (IF source \in {"None", "exchangerate"} /\ client
                      THEN BatchFiat ELSE {NotCalled}) :
                  client \in BOOLEAN} :
           source \in Sources}

\* C15: in a run_update over all sources, when one provider returns a
\* non-empty set S of rates and the other provider's fetch raises
\* (whichever of the two), run_update succeeds, returns total_rates = |S|
\* and a non-empty errors list, and the pairs of rates.json are exactly S.
C15_PartialFailureIsSuccess ==
    \A crypto \in BatchCrypto, fiat \in BatchFiat :
        LET r == run_update(rates_file, history_file, now, "None",
                            crypto, fiat, TRUE)
        IN /\ (crypto.ok /\ crypto.rates # <<>> /\ ~fiat.ok) =>
                 /\ r.err = "ok"
                 /\ r.total_rates = Cardinality(Keys(crypto.rates))
                 /\ r.errors # <<>>
                 /\ FileHoldsExactly(r.file, crypto.rates)
           /\ (~crypto.ok /\ fiat.ok /\ fiat.rates # <<>>) =>
                 /\ r.err = "ok"
                 /\ r.total_rates = Cardinality(Keys(fiat.rates))
                 /\ r.errors # <<>>
                 /\ FileHoldsExactly(r.file, fiat.rates)

\* an update has succeeded with two rates from one provider and an error
\* from the other
C15_Witness ==
    /\ last.op = "run_update"
    /\ last.err = "ok"
    /\ last.errors > 0
    /\ last.total = 2
    /\ Cardinality(DOMAIN rates_file.pairs) = 2

\* C16: for any source filter, when no selected provider yields a rate
\* (each one raised, is not configured, or returned nothing), run_update
\* fails and rates.json is not modified.
C16_EmptyUpdateFails ==
    \A call \in BatchCalls :
        LET source == call[1][1][1]
            has_fiat_client == call[1][1][2]
            crypto == call[1][2]
            fiat == call[2]
            r == run_update(rates_file, history_file, now, source,
                            crypto, fiat, has_fiat_client)
            yields == \/ /\ source \in {"None", "CoinGecko"}
                         /\ crypto.ok /\ crypto.rates # <<>>
                      \/ /\ source \in {"None", "exchangerate"}
                         /\ has_fiat_client
                         /\ fiat.ok /\ fiat.rates # <<>>
        IN ~yields => (r.err # "ok" /\ r.file = rates_file)

\* an update has failed after an earlier one had written rates.json
C16_Witness ==
    /\ last.op = "run_update"
    /\ last.err = "Exception"
    /\ rates_file.exists
    /\ DOMAIN rates_file.pairs # {}

\* C17: when both providers return a rate for the same pair in one
\* run_update, the entry of that pair in rates.json holds the rate and the
\* source of the fiat provider, which runs after the crypto provider.
C17_LastProviderWins ==
    \A crypto \in BatchCrypto, fiat \in BatchFiat :
        LET r == run_update(rates_file, history_file, now, "None",
                            crypto, fiat, TRUE)
        IN (crypto.ok /\ fiat.ok) =>
              \A k \in Keys(crypto.rates) \cap Keys(fiat.rates) :
                  /\ r.err = "ok"
                  /\ r.file.pairs[k].rate = ItemRate(fiat.rates, k)
                  /\ r.file.pairs[k].source = "ExchangeRate-API"

\* an update in which both providers gave BTC_USD has written the fiat
\* provider's rate
C17_Witness ==
    /\ last.op = "run_update"
    /\ last.err = "ok"
    /\ last.overlap
    /\ rates_file.pairs[PairKey(BTC, USD)].rate = <<59000, 1>>

\* the number of records a run_update with these answers appends
Fetched(source, crypto, fiat, has_fiat_client) ==
    (IF source \in {"None", "CoinGecko"} /\ crypto.ok
     THEN Len(crypto.rates) ELSE 0)
    + (IF source \in {"None", "exchangerate"} /\ has_fiat_client /\ fiat.ok
       THEN Len(fiat.rates) ELSE 0)

\* C18: a run_update leaves every record of the history log in place and
\* unchanged, and appends exactly one record for each pair a provider
\* returned, each stamped with the current time.
C18_HistoryOnlyGrows ==
    \A call \in BatchCalls :
        LET source == call[1][1][1]
            has_fiat_client == call[1][1][2]
            crypto == call[1][2]
            fiat == call[2]
            r == run_update(rates_file, history_file, now, source,
                            crypto, fiat, has_fiat_client)
            n == Len(history_file)
        IN /\ Len(r.history)
                 = n + Fetched(source, crypto, fiat, has_fiat_client)
           /\ SubSeq(r.history, 1, n) = history_file
           /\ \A i \in (n + 1)..Len(r.history) :
                 r.history[i].timestamp = UtcZStamp(now)

\* the log holds the records of two updates made at different times
C18_Witness ==
    /\ Len(history_file) >= 3
    /\ history_file[1].timestamp # history_file[Len(history_file)].timestamp

----------------------------------------------------------------------------
(* Properties of persistence *)

\* C19: when the process dies at any step of a write of rates.json (by
\* save_rates_cache or by update_rate) or of a history append, the target
\* file holds the complete previous content or the complete new content.
C19_AtomicPersist ==
    last.op = "crash" =>
        /\ rates_file \in {last.before, last.after}
        /\ history_file \in {last.hbefore, last.hafter}

\* C20: every read of the cache by the resolver reflects the most recent
\* completed write of rates.json: each entry the file holds, written by
\* update_rate or by run_update, is the entry get_rate reads for its pair.
C20_ReadsSeeLastWrite ==
    /\ \A k \in DOMAIN rates_file.top :
          /\ k \in DOMAIN _rates.top
          /\ _rates.top[k] = rates_file.top[k]
    /\ \A k \in DOMAIN rates_file.pairs :
          LET rate == get_rate(_rates, SplitFrom(k), SplitTo(k)) IN
          /\ rate.found
          /\ RateEq(rate.rate, rates_file.pairs[k].rate)

----------------------------------------------------------------------------
(* Properties of the trading calls *)

\* a code of 2 to 5 alphanumeric characters, once stripped and upper-cased
WellFormedCode(c) ==
    LET n == StrUpper(StrStrip(c)) IN
    /\ Len(n) >= 2 /\ Len(n) <= 5
    /\ \A i \in 1..Len(n) : n[i] \in UpperChars \cup DigitChars

\* a stripped and upper-cased code the registry knows
Registered(c) == StrUpper(StrStrip(c)) \in CurrencyRegistry

\* the call has left the wallets and the rate cache as they were and has
\* not called the resolver
NothingTouched(r) ==
    /\ r.resolver_calls = 0
    /\ ~r.fallback
    /\ WalletSet(r.portfolios) = WalletSet(_portfolios)
    /\ r.rates = _rates
    /\ r.rfile = rates_file

\* C21: buy_currency and sell_currency fail with ValueError for an amount
\* <= 0, with InvalidCurrencyCodeError for a positive amount and a
\* malformed code, with CurrencyNotFoundError for a positive amount and a
\* well-formed code the registry does not know; in the three cases
\* get_or_fetch_rate is not called and every wallet balance,
\* RateManager._rates and rates.json are unchanged.
C21_ValidationFailsEarly ==
    \A u \in Users, c \in TradeCodes, a \in TradeAmounts :
    \A b \in {buy_currency(PM, RM, now, u, c, a)},
       s \in {sell_currency(PM, RM, now, u, c, a)} :
        /\ a <= 0 =>
              /\ b.err = "ValueError" /\ NothingTouched(b)
              /\ s.err = "ValueError" /\ NothingTouched(s)
        /\ (a > 0 /\ ~WellFormedCode(c)) =>
              /\ b.err = "InvalidCurrencyCodeError" /\ NothingTouched(b)
              /\ s.err = "InvalidCurrencyCodeError" /\ NothingTouched(s)
        /\ (a > 0 /\ WellFormedCode(c) /\ ~Registered(c)) =>
              /\ b.err = "CurrencyNotFoundError" /\ NothingTouched(b)
              /\ s.err = "CurrencyNotFoundError" /\ NothingTouched(s)

\* a sell of an unregistered code has failed while the user holds a
\* balance and a rate is cached
C21_Witness ==
    /\ last.op = "sell"
    /\ last.err = "CurrencyNotFoundError"
    /\ \E w \in WalletSet(_portfolios) : w[3] > 0
    /\ DOMAIN _rates.top # {}

----------------------------------------------------------------------------
(* Properties of the stored rates *)

\* C22: after any sequence of get_or_fetch_rate and run_update calls,
\* whatever the providers answer, every rate in RateManager._rates and in
\* rates.json is > 0.
C22_StoredRatesPositive ==
    /\ \A k \in DOMAIN _rates.top : _rates.top[k].rate[1] > 0
    /\ \A k \in DOMAIN rates_file.top : rates_file.top[k].rate[1] > 0
    /\ \A k \in DOMAIN rates_file.pairs : rates_file.pairs[k].rate[1] > 0

\* C23: in a run_update, the step taken while a provider's fetch_rates()
\* is in progress writes neither rates.json nor exchange_rates.json;
\* rates.json is written at most once, by a step taken after every
\* provider the call selects has returned or raised; until that step
\* rates.json holds what it held when run_update was called.
C23_NoWriteBeforeProvidersReturn ==
    last.op = "run_update_step" =>
        /\ last.pc # "done" => rates_file = last.start_file
        /\ last.cache_writes <= 1
        /\ last.cache_writes = 1 => last.pc = "done"
        /\ \A answer \in BatchCrypto \cup BatchFiat :
            \A n \in {run_update_step(last, rates_file, history_file, now,
                                       answer)} :
              /\ last.pc \in {"crypto_fetch", "fiat_fetch"} =>
                    (n.file = rates_file /\ n.history = history_file)
              /\ n.file # rates_file =>
                    /\ Selected(last.source, last.has_fiat_client)
                          \subseteq last.returned
                    /\ last.cache_writes = 0
                    /\ n.frame.pc = "done"

\* a run_update in which both providers returned rates has logged them and
\* then replaced rates.json
C23_Witness ==
    /\ last.op = "run_update_step"
    /\ last.pc = "done"
    /\ last.returned = {"crypto", "fiat"}
    /\ last.errors = <<>>
    /\ last.cache_writes = 1
    /\ rates_file # last.start_file
    /\ Len(history_file) >= 2

\* the <<user, code>> of the wallets of a portfolio dict
WalletKeys(portfolios) == {<<w[1], w[2]>> : w \in WalletSet(portfolios)}

\* C24: starting without portfolios, after any sequence of buy_currency
\* and sell_currency calls a user's portfolio holds a wallet for currency
\* C exactly when a buy of C by that user has succeeded; every spelling of
\* a code leads to the one wallet keyed by the normalized code; no call
\* removes a wallet, and a sell of the full balance leaves the wallet in
\* place with balance 0.
C24_WalletIffBought ==
    /\ WalletKeys(_portfolios) = Bought
    /\ \A k \in WalletKeys(_portfolios) : StrUpper(StrStrip(k[2])) = k[2]
    /\ \A u \in Users, c \in TradeCodes, a \in TradeAmounts :
       \A b \in {buy_currency(PM, RM, now, u, c, a)},
          s \in {sell_currency(PM, RM, now, u, c, a)} :
           /\ WalletKeys(_portfolios) \subseteq WalletKeys(b.portfolios)
           /\ WalletKeys(s.portfolios) = WalletKeys(_portfolios)
           /\ (s.err = "ok"
               /\ a = BalanceOf(_portfolios, u, StrUpper(StrStrip(c)))) =>
                  /\ HasWallet(s.portfolios, u, StrUpper(StrStrip(c)))
                  /\ s.portfolios[u][StrUpper(StrStrip(c))] = 0

\* a sell of the full balance has succeeded and the emptied wallet is
\* still there
C24_Witness ==
    /\ last.op = "sell"
    /\ last.err = "ok"
    /\ \E w \in WalletSet(_portfolios) :
          w[3] = 0 /\ <<w[1], w[2]>> \in Bought

\* C25: without a credential (no argument, none in the environment)
\* ExchangeRateApiClient.__init__ raises; RatesUpdater() built in that
\* environment is constructed and has no fiat client; its
\* run_update(None) calls the crypto provider (its failure is reported,
\* its rates are stored) and, when the crypto provider returns rates,
\* succeeds with an empty errors list.
C25_NoCredentialDisablesFiat ==
    /\ \A api_key \in {"None", ""} :
          ExchangeRateApiClient_init(api_key, "").err = "ValueError"
    /\ \A key \in EnvKeys \ {""} :
          /\ ExchangeRateApiClient_init("None", key).err = "ok"
          /\ RatesUpdater_init(FALSE, key).has_fiat_client
    /\ \A u \in {RatesUpdater_init(FALSE, "")} :
          /\ u.err = "ok"
          /\ ~u.has_fiat_client
          /\ \A crypto \in BatchCrypto, fiat \in BatchFiat :
             \A r \in {run_update(rates_file, history_file, now, "None",
                                  crypto, fiat, u.has_fiat_client)} :
                /\ (crypto.ok /\ crypto.rates # <<>>) =>
                      /\ r.err = "ok"
                      /\ r.errors = <<>>
                      /\ FileHoldsExactly(r.file, crypto.rates)
                /\ ~crypto.ok =>
                      r.errors = <<"Failed to fetch from CoinGecko">>

\* the update command has succeeded over all sources without a credential
\* and without an error entry
C25_Witness ==
    /\ last.op = "update_rates"
    /\ last.key = ""
    /\ last.source = "None"
    /\ last.err = "ok"
    /\ last.errors = 0
    /\ DOMAIN rates_file.pairs = {PairKey(BTC, USD)}

----------------------------------------------------------------------------
(* Properties of the provider clients *)

\* C26: a failed request raises one ApiRequestError whose cause tells
\* timeout, connection failure, HTTP 429, another HTTP error status and a
\* malformed response apart: a 429 answer is reported as rate-limited, any
\* other HTTP error status with that status code.
C26_CauseClassified ==
    (last.op = "request" /\ last.kind # "ok") =>
        /\ last.raised = "ApiRequestError"
        /\ last.kind = "Timeout" => last.cause = "timeout"
        /\ last.kind = "ConnectionError" => last.cause = "connection"
        /\ (last.kind = "HTTPError" /\ last.status = 429) =>
              last.cause = "rate_limited"
        /\ (last.kind = "HTTPError" /\ last.status # 429) =>
              (last.cause = "http_status" /\ last.status_code = last.status)
        /\ last.kind \in {"JSONDecodeError", "ValueError"} =>
              last.cause = "bad_json"

----------------------------------------------------------------------------
(* Properties of the wallet *)

\* C27: Wallet.withdraw(amount) on a wallet with balance B fails with
\* InsufficientFundsError for every amount > B, and then the balance is
\* still B.
C27_WithdrawInsufficientFunds ==
    (last.op = "withdraw" /\ last.amount > last.balance) =>
        /\ last.err = "InsufficientFundsError"
        /\ _portfolios[last.user][last.currency] = last.balance

----------------------------------------------------------------------------
(* Frame of the trading calls *)

\* the wallets of a portfolio dict other than user u's wallet of code c
OtherWallets(portfolios, u, c) ==
    {w \in WalletSet(portfolios) : <<w[1], w[2]>> # <<u, c>>}

\* the portfolios, in memory and in portfolios.json, of the users other
\* than u are the same in r as in the current state
OtherUsersUntouched(r, u) ==
    \A v \in Users \ {u} :
        /\ v \in DOMAIN r.portfolios <=> v \in DOMAIN _portfolios
        /\ v \in DOMAIN _portfolios => r.portfolios[v] = _portfolios[v]
        /\ v \in DOMAIN r.pfile.data <=> v \in DOMAIN portfolios_file.data
        /\ v \in DOMAIN portfolios_file.data =>
              r.pfile.data[v] = portfolios_file.data[v]

\* C28: a successful buy_currency or sell_currency of currency C by user U
\* changes the balance of U's C wallet and no other: every other wallet
\* of U keeps its balance (the USD wallet is not debited by a buy nor
\* credited by a sell), no other wallet appears or disappears, and the
\* portfolios of the other users are unchanged.
C28_OnlyTradedWalletChanges ==
    \A u \in Users, c \in TradeCodes, a \in TradeAmounts :
    \A b \in {buy_currency(PM, RM, now, u, c, a)},
       s \in {sell_currency(PM, RM, now, u, c, a)} :
    \A code \in {StrUpper(StrStrip(c))} :
        /\ b.err = "ok" =>
              /\ OtherWallets(b.portfolios, u, code)
                    = OtherWallets(_portfolios, u, code)
              /\ OtherUsersUntouched(b, u)
              /\ code # USD =>
                    /\ HasWallet(b.portfolios, u, USD)
                          <=> HasWallet(_portfolios, u, USD)
                    /\ BalanceOf(b.portfolios, u, USD)
                          = BalanceOf(_portfolios, u, USD)
        /\ s.err = "ok" =>
              /\ OtherWallets(s.portfolios, u, code)
                    = OtherWallets(_portfolios, u, code)
              /\ OtherUsersUntouched(s, u)
              /\ code # USD =>
                    /\ HasWallet(s.portfolios, u, USD)
                          <=> HasWallet(_portfolios, u, USD)
                    /\ BalanceOf(s.portfolios, u, USD)
                          = BalanceOf(_portfolios, u, USD)

\* a buy has succeeded while a user holds USD and BTC and the other user
\* holds a wallet too
C28_Witness ==
    /\ last.op = "buy"
    /\ last.err = "ok"
    /\ \E u \in Users :
          /\ BalanceOf(_portfolios, u, USD) > 0
          /\ BalanceOf(_portfolios, u, BTC) > 0
          /\ \E v \in Users \ {u} : \E w \in WalletSet(_portfolios) :
                w[1] = v /\ w[3] > 0

\* C29: a buy_currency or sell_currency call that fails, for whatever
\* reason, leaves portfolios.json exactly as it was, also when the user
\* has no portfolio record yet.
C29_FailureLeavesStore ==
    \A u \in Users, c \in TradeCodes, a \in TradeAmounts :
    \A b \in {buy_currency(PM, RM, now, u, c, a)},
       s \in {sell_currency(PM, RM, now, u, c, a)} :
        /\ b.err # "ok" => b.pfile = portfolios_file
        /\ s.err # "ok" => s.pfile = portfolios_file

----------------------------------------------------------------------------
(* Frame of the update *)

\* the calls of run_update over the providers' raw answers: <<source
\* filter, whether the fiat client is configured, CoinGecko's answer,
\* ExchangeRate-API's answer>>
QuoteCalls ==
    UNION {UNION {(IF source \in {"None", "CoinGecko"}
                   THEN {<<source, client>>} \X CoinGeckoAnswers
                   ELSE {<<source, client>>} \X {NoAnswer})
                  \X (IF source \in {"None", "exchangerate"} /\ client
                      THEN ExchangeRateAnswers ELSE {NoAnswer}) :
                  client \in BOOLEAN} :
           source \in Sources}

\* C30: a successful run_update replaces rates.json as a whole: the file
\* then holds exactly the pairs fetched in this run, each stamped by this
\* run, and no entry of another pair that an earlier run_update or the
\* RateManager had written.
C30_UpdateReplacesCache ==
    \A call \in QuoteCalls :
    \A crypto \in {CoinGecko_fetch_rates(call[1][2])},
       fiat \in {ExchangeRate_fetch_rates(call[2])} :
    \A r \in {run_update(rates_file, history_file, now, call[1][1][1],
                         crypto, fiat, call[1][1][2])} :
        LET fetched == (IF crypto.ok THEN Keys(crypto.rates) ELSE {})
                       \cup (IF fiat.ok THEN Keys(fiat.rates) ELSE {})
            before == (DOMAIN rates_file.top) \cup (DOMAIN rates_file.pairs)
        IN r.err = "ok" =>
              /\ r.file.exists
              /\ DOMAIN r.file.pairs = fetched
              /\ DOMAIN r.file.top = {}
              /\ \A k \in fetched :
                    r.file.pairs[k].updated_at = UtcZStamp(now)
              /\ \A k \in before \ fetched :
                    k \notin (DOMAIN r.file.pairs) \cup (DOMAIN r.file.top)

\* an update of the fiat source has succeeded after the crypto source and
\* the RateManager had written rates.json: the file holds EUR_USD only
C30_Witness ==
    /\ last.op = "run_update"
    /\ last.err = "ok"
    /\ DOMAIN rates_file.pairs = {PairKey(EUR, USD)}
    /\ DOMAIN rates_file.top = {}
    /\ DOMAIN _rates.top # {}
    /\ \E i \in 1..Len(history_file) : history_file[i].from_currency = BTC

----------------------------------------------------------------------------
(* Properties of the shared cache file *)

\* C31: the write of update_rate (made by get_or_fetch_rate) replaces
\* rates.json by the manager's complete dict: afterwards the file holds
\* the dict's top-level entries and the "pairs" the manager loaded when it
\* was constructed, so an entry of "pairs" that a run_update has written
\* since then, and that the manager's dict does not hold, is no longer in
\* the file.
C31_ResolverWriteOverwritesUpdate ==
    \A p \in RatePairs :
    \A g \in {get_or_fetch_rate(_rates, rates_file, now, p[1], p[2])} :
        g.wrote =>
            /\ g.file.exists
            /\ g.file.top = g.rates.top
            /\ g.file.has_pairs = _rates.has_pairs
            /\ g.file.pairs = _rates.pairs
            /\ \A k \in DOMAIN rates_file.pairs :
                  (k \notin DOMAIN _rates.pairs
                   \/ _rates.pairs[k] # rates_file.pairs[k]) =>
                      (k \notin DOMAIN g.file.pairs
                       \/ g.file.pairs[k] # rates_file.pairs[k])

\* a run_update had written its pair, and the write of a manager
\* constructed before it has left rates.json without "pairs"
C31_Witness ==
    /\ last.op = "get_or_fetch_rate"
    /\ last.fallback
    /\ last.err = "ok"
    /\ history_file # <<>>
    /\ ~rates_file.has_pairs
    /\ DOMAIN rates_file.pairs = {}
    /\ DOMAIN rates_file.top # {}

\* a history record for the cache entry under key k: the same pair, rate
\* and source
HasHistoryRecord(history, k, entry) ==
    \E i \in 1..Len(history) :
        /\ PairKey(history[i].from_currency, history[i].to_currency) = k
        /\ history[i].rate = entry.rate
        /\ history[i].source = entry.source

\* C32: from empty files and through run_update calls only, every entry
\* under "pairs" in rates.json has a history record with the same pair,
\* rate and source, and whenever a step of run_update writes rates.json
\* those records are in exchange_rates.json before that step (the step
\* itself appends none).
C32_CacheEntriesHaveHistory ==
    /\ \A k \in DOMAIN rates_file.pairs :
          HasHistoryRecord(history_file, k, rates_file.pairs[k])
    /\ last.op = "run_update_step" =>
          \A answer \in BatchCrypto \cup BatchFiat :
            \A n \in {run_update_step(last, rates_file, history_file, now,
                                       answer)} :
              n.file # rates_file =>
                  /\ n.history = history_file
                  /\ \A k \in DOMAIN n.file.pairs :
                        HasHistoryRecord(history_file, k, n.file.pairs[k])

\* both providers reported BTC_USD in one run: the cache holds the later
\* value, and the history holds a record for each report
C32_Witness ==
    /\ last.op = "run_update_step"
    /\ last.pc = "done"
    /\ PairKey(BTC, USD) \in DOMAIN rates_file.pairs
    /\ rates_file.pairs[PairKey(BTC, USD)].source = "ExchangeRate-API"
    /\ \E i \in 1..Len(history_file) :
          /\ history_file[i].source = "CoinGecko"
          /\ history_file[i].from_currency = BTC
    /\ \E i \in 1..Len(history_file) :
          /\ history_file[i].source = "ExchangeRate-API"
          /\ history_file[i].from_currency = BTC

----------------------------------------------------------------------------
(* Properties of the portfolio store *)

\* C33: after every successful buy or sell, a PortfolioManager constructed
\* anew from portfolios.json holds, for every user, the same wallets with
\* the same balances as the manager that made the trade.
C33_StoreMatchesMemory ==
    (last.op \in {"buy", "sell"} /\ last.err = "ok") =>
        \A loaded \in {_load_portfolios(portfolios_file)} :
            /\ DOMAIN loaded = DOMAIN _portfolios
            /\ \A u \in DOMAIN _portfolios :
                  /\ DOMAIN loaded[u] = DOMAIN _portfolios[u]
                  /\ \A c \in DOMAIN _portfolios[u] :
                        loaded[u][c] = _portfolios[u][c]

\* a sell has emptied one user's wallet while another user holds money
C33_Witness ==
    /\ last.op = "sell"
    /\ last.err = "ok"
    /\ \E u, v \in DOMAIN _portfolios :
          /\ \E c \in DOMAIN _portfolios[u] : _portfolios[u][c] = 0
          /\ \E d \in DOMAIN _portfolios[v] : _portfolios[v][d] > 0

----------------------------------------------------------------------------
(* Properties of the freshness test *)

\* the max_age_seconds values a caller gives explicitly
GivenMaxAges == {0, 1, rates_ttl_seconds}

\* C34: for two different codes with a cache entry (direct, else
\* reciprocal), is_rate_fresh(from, to, max_age) is true exactly when the
\* entry's age is at most max_age, for every explicitly given
\* max_age >= 0, max_age = 0 included; without an entry it is false.
C34_FreshIffAgeWithinGivenMaxAge ==
    \A p \in RatePairs, d \in Later, max_age \in GivenMaxAges :
        is_rate_fresh(_rates, now + d, p[1], p[2], <<max_age>>)
            <=> /\ IsCached(_rates, p[1], p[2])
                /\ AgeAt(_rates, now + d, p[1], p[2]) <= max_age

----------------------------------------------------------------------------
(* Properties of the fiat quotes *)

\* the values per code that an answer of ExchangeRate-API reports with
\* base USD: units of the code per one USD
ReportedPerUsd(answer) ==
    IF DOMAIN answer.conversion_rates # {}
    THEN answer.conversion_rates ELSE answer.rates

\* C35: a fiat code C that ExchangeRate-API reports at v units of C per USD
\* is stored under C_USD with the rate from C to USD, 1/v: every non-zero
\* entry of rates.json that came from ExchangeRate-API is the inverse of a
\* value the provider reports for its code.
C35_FiatRateIsInverse ==
    \A k \in DOMAIN rates_file.pairs :
        (/\ rates_file.pairs[k].source = "ExchangeRate-API"
         /\ rates_file.pairs[k].rate[1] # 0) =>
            \E answer \in ExchangeRateAnswers :
            \E fiat_code \in DOMAIN ReportedPerUsd(answer) :
                /\ k = PairKey(fiat_code, BASE_CURRENCY)
                /\ ReportedPerUsd(answer)[fiat_code][1] # 0
                /\ RateEq(rates_file.pairs[k].rate,
                          RateInv(ReportedPerUsd(answer)[fiat_code]))

----------------------------------------------------------------------------
(* Properties of the order of the checks *)

\* the store after user u has opened an empty wallet in currency c
HoldingEmpty(u, c) ==
    LET pm1 == get_portfolio(_portfolios, portfolios_file, u)
    IN save_portfolio(pm1.portfolios, u,
                      add_currency(pm1.portfolios[u], c).wallets)

\* the stores a trade of user u in currency c is tried on: the current
\* one and, for a registered code, the ones where u holds a full and an
\* empty wallet in it
TriedStores(u, c) ==
    {PM} \cup (IF WellFormedCode(c) /\ Registered(c)
               THEN {Holding(u, StrUpper(StrStrip(c))),
                     HoldingEmpty(u, StrUpper(StrStrip(c)))}
               ELSE {})

\* the first condition, in the stated order, that a sell meets
SellPrecedence(pm, u, c, a) ==
    IF a <= 0 THEN "ValueError"
    ELSE IF ~WellFormedCode(c) THEN "InvalidCurrencyCodeError"
    ELSE IF ~Registered(c) THEN "CurrencyNotFoundError"
    ELSE IF ~HasWallet(pm.portfolios, u, StrUpper(StrStrip(c)))
    THEN "WalletNotFoundError"
    ELSE IF BalanceOf(pm.portfolios, u, StrUpper(StrStrip(c))) < a
    THEN "InsufficientFundsError"
    ELSE IF get_or_fetch_rate(_rates, rates_file, now,
                              StrUpper(StrStrip(c)), USD).err # "ok"
    THEN "RateUnavailableError"
    ELSE "ok"

\* the first condition, in the stated order, that a buy meets
BuyPrecedence(c, a) ==
    IF a <= 0 THEN "ValueError"
    ELSE IF ~WellFormedCode(c) THEN "InvalidCurrencyCodeError"
    ELSE IF ~Registered(c) THEN "CurrencyNotFoundError"
    ELSE IF get_or_fetch_rate(_rates, rates_file, now,
                              StrUpper(StrStrip(c)), USD).err # "ok"
    THEN "RateUnavailableError"
    ELSE "ok"

\* C36: when several error conditions hold, sell_currency reports the
\* first of: non-positive amount (ValueError), malformed code, unknown
\* currency, missing wallet, insufficient funds, rate unavailable; and
\* buy_currency the first of the same list without the wallet and the
\* funds conditions. With none of them the call succeeds.
C36_ErrorPrecedence ==
    \A u \in Users, c \in TradeCodes, a \in TradeAmounts :
    \A pm \in TriedStores(u, c) :
        /\ sell_currency(pm, RM, now, u, c, a).err = SellPrecedence(pm, u, c, a)
        /\ buy_currency(pm, RM, now, u, c, a).err = BuyPrecedence(c, a)

\* a sell has failed on the funds check for a currency whose rate cannot
\* be resolved either (the user holds an empty LTC wallet), or on the wallet
\* check
C36_Witness ==
    /\ last.op = "sell"
    /\ last.err = "InsufficientFundsError"
    /\ \E u \in Users :
        \E h \in {HoldingEmpty(u, LTC)} :
          /\ get_or_fetch_rate(_rates, rates_file, now, LTC, USD).err # "ok"
          /\ sell_currency(h, RM, now, u, LTC, 1).err
                = "InsufficientFundsError"
          /\ sell_currency(PM, RM, now, u, LTC, 1).err
                = "WalletNotFoundError"
          /\ sell_currency(PM, RM, now, u, LTC, 0).err = "ValueError"

----------------------------------------------------------------------------
(* Properties of the code validation *)

\* C38: validate_currency_code accepts its argument exactly when, trimmed
\* and upper-cased, it has 2 to 5 characters, all alphanumeric; it then
\* returns that trimmed upper-case code, and otherwise raises
\* InvalidCurrencyCodeError; validating a returned code returns it
\* unchanged.
C38_ValidateCode ==
    /\ last.op = "validate_currency_code" =>
          \A n \in {StrUpper(StrStrip(last.arg))} :
            /\ last.err = "ok" <=>
                   /\ Len(n) >= 2 /\ Len(n) <= 5
                   /\ \A i \in 1..Len(n) : IsAlnumChar(n[i])
            /\ last.err = "ok" => last.code = n
            /\ last.err # "ok" => last.err = "InvalidCurrencyCodeError"
    /\ last.op = "validate_again" =>
          /\ last.err = "ok"
          /\ last.code = last.arg

\* a code given in lower case between spaces was accepted, and its
\* normalized form validated again
C38_Witness ==
    /\ last.op = "validate_again"
    /\ last.err = "ok"
    /\ last.first # last.arg
    /\ Len(last.first) > Len(last.arg)
    /\ \E i \in 1..Len(last.first) : last.first[i] \in LowerChars

----------------------------------------------------------------------------
(* Properties of the history records *)

====
